---------------------------- MODULE Spec2Model ----------------------------
(***************************************************************************)
(* A model of mini-leveldb: the write-ahead log (binary records with a     *)
(* CRC32), the SSTable file format (data entries, Bloom filter, index and  *)
(* footer) and the engine (memtable, levels L0..L6, Get, Put, Flush with   *)
(* WAL rollover, leveled compaction, Open and Close).                      *)
(*                                                                         *)
(* Files are sequences of cells.  A cell c >= 0 is one byte of value c; a  *)
(* cell c < 0 stands for a run of -c zero bytes, so that a value of        *)
(* several MiB (the size at which the byte cap of a level is reached) is   *)
(* one cell.  All offsets and lengths are byte counts, as in the code.     *)
(***************************************************************************)
EXTENDS Integers, Sequences, FiniteSets, TLC

(***************************************************************************)
(* Bounds of the model.                                                    *)
(***************************************************************************)
MaxWalRecords == 2
MaxBigPuts == 1
MaxRestarts == 1
MaxFaults == 1
MaxFailedFlushes == 1
MaxPuts == 5
MaxPutsRestart == 5
MaxPutsCrash == 2
MaxPutsFault == 4
MaxPutsPutFault == 3
MaxWalRecordsFault == 1

(***************************************************************************)
(* Bytes, cells and Go strings.                                            *)
(***************************************************************************)
CellLen(c) == IF c < 0 THEN -c ELSE 1

\* The number of bytes of s.  (The sequence is halved rather than walked, so
\* that the evaluation stays shallow on a file of many cells.)
RECURSIVE ByteLen(_)
ByteLen(s) ==
    IF s = <<>> THEN 0
    ELSE IF Len(s) = 1 THEN CellLen(s[1])
    ELSE ByteLen(SubSeq(s, 1, Len(s) \div 2))
         + ByteLen(SubSeq(s, Len(s) \div 2 + 1, Len(s)))

\* A run of n zero bytes as cells: short runs are spelled out as bytes.
ZeroRun(n) ==
    IF n <= 0 THEN <<>>
    ELSE IF n <= 8 THEN [i \in 1..n |-> 0]
    ELSE <<-n>>

\* The number of leading cells of s that lie wholly within its first n bytes.
RECURSIVE Whole(_, _)
WholeSplit(s, n, h, l) ==
    IF l <= n THEN h + Whole(SubSeq(s, h + 1, Len(s)), n - l)
    ELSE Whole(SubSeq(s, 1, h), n)

Whole(s, n) ==
    IF s = <<>> THEN 0
    ELSE IF Len(s) = 1 THEN (IF CellLen(s[1]) <= n THEN 1 ELSE 0)
    ELSE WholeSplit(s, n, Len(s) \div 2, ByteLen(SubSeq(s, 1, Len(s) \div 2)))

\* The first n bytes of s (fewer when s is shorter): j whole cells, then r
\* bytes of the run that follows.
TakeAt(s, j, r) ==
    SubSeq(s, 1, j) \o (IF j < Len(s) THEN ZeroRun(r) ELSE <<>>)

Take(s, n) ==
    CHOOSE t \in { TakeAt(s, j, n - ByteLen(SubSeq(s, 1, j))) : j \in {Whole(s, n)} } : TRUE

\* s without its first n bytes.
DropAt(s, j, r) ==
    IF j >= Len(s) THEN <<>>
    ELSE IF r > 0 THEN ZeroRun(CellLen(s[j + 1]) - r) \o SubSeq(s, j + 2, Len(s))
    ELSE SubSeq(s, j + 1, Len(s))

Drop(s, n) ==
    CHOOSE t \in { DropAt(s, j, n - ByteLen(SubSeq(s, 1, j))) : j \in {Whole(s, n)} } : TRUE

\* Go's string comparison: bytewise lexicographic.
RECURSIVE StrLess(_, _)
StrLess(a, b) ==
    IF b = <<>> THEN FALSE
    ELSE IF a = <<>> THEN TRUE
    ELSE IF Head(a) # Head(b) THEN Head(a) < Head(b)
    ELSE StrLess(Tail(a), Tail(b))

StrLeq(a, b) == a = b \/ StrLess(a, b)

(***************************************************************************)
(* Little-endian fixed-width integers (encoding/binary).  The model holds  *)
(* only values below 2^31; a decoded value beyond that is TooBig.          *)
(***************************************************************************)
TooBig == 2147483647

PutUint32(n) ==
    << n % 256, (n \div 256) % 256, (n \div 65536) % 256, (n \div 16777216) % 256 >>

PutInt64(n) == PutUint32(n) \o <<0, 0, 0, 0>>

\* b: exactly 4 byte cells.
Uint32(b) ==
    IF b[4] >= 128 THEN TooBig
    ELSE b[1] + 256 * b[2] + 65536 * b[3] + 16777216 * b[4]

\* b: exactly 4 byte cells, read as an int32.
Int32(b) ==
    b[1] + 256 * b[2] + 65536 * b[3] + 16777216 * (IF b[4] >= 128 THEN b[4] - 256 ELSE b[4])

\* b: exactly 8 byte cells, read as an int64 (-TooBig: below -2^31).
Int64(b) ==
    IF b[5] = 0 /\ b[6] = 0 /\ b[7] = 0 /\ b[8] = 0 THEN Uint32(SubSeq(b, 1, 4))
    ELSE IF b[5] = 255 /\ b[6] = 255 /\ b[7] = 255 /\ b[8] = 255 /\ b[4] >= 128
         THEN Int32(SubSeq(b, 1, 4))
    ELSE IF b[8] >= 128 THEN -TooBig
    ELSE TooBig

(***************************************************************************)
(* hash/crc32, ChecksumIEEE: the reflected CRC-32 with polynomial          *)
(* 0xEDB88320.  A 32-bit word is the set of its one bits (0 = lowest).     *)
(***************************************************************************)
Xor(a, b) == { i \in 0..31 : (i \in a) # (i \in b) }

Shr1(w) == { i \in 0..30 : (i + 1) \in w }

Pow2(i) == IF i = 0 THEN 1 ELSE IF i = 1 THEN 2 ELSE IF i = 2 THEN 4
           ELSE IF i = 3 THEN 8 ELSE IF i = 4 THEN 16 ELSE IF i = 5 THEN 32
           ELSE IF i = 6 THEN 64 ELSE 128

ByteBits(b) == { i \in 0..7 : (b \div Pow2(i)) % 2 = 1 }

\* 0xEDB88320
CrcPoly == {5, 8, 9, 15, 19, 20, 21, 23, 24, 26, 27, 29, 30, 31}

CrcBit(w) == IF 0 \in w THEN Xor(Shr1(w), CrcPoly) ELSE Shr1(w)

CrcByte(w, b) ==
    CrcBit(CrcBit(CrcBit(CrcBit(CrcBit(CrcBit(CrcBit(CrcBit(Xor(w, ByteBits(b))))))))))

\* A zero byte acts linearly on the register.  A linear map is the sequence
\* that holds, at index i + 1, the image of the word with bit i alone.  (The
\* concatenation with the empty sequence makes the sequence a tuple of values.)
CrcZeroByte == [i \in 1..32 |-> CrcByte({i - 1}, 0)] \o <<>>

MapApply(M, w) ==
    { j \in 0..31 : Cardinality({ i \in w : j \in M[i + 1] }) % 2 = 1 }

MapCompose(M, N) == [i \in 1..32 |-> MapApply(M, N[i])] \o <<>>

\* The map of n zero bytes, by repeated squaring.  The one-element sets bind
\* each intermediate map to a value, which is then computed once.
RECURSIVE CrcZeroRunMap(_)
CrcZeroRunMap(n) ==
    IF n = 1 THEN CrcZeroByte
    ELSE CHOOSE R \in { IF n % 2 = 0 THEN S ELSE MapCompose(CrcZeroByte, S) :
                        S \in { MapCompose(H, H) : H \in {CrcZeroRunMap(n \div 2)} } } : TRUE

\* The map of the longest run the model writes, computed once.
LongRun == 10 * 1024 * 1024

LongRunMap == CrcZeroRunMap(LongRun)

RunMap(n) == IF n = LongRun THEN LongRunMap ELSE CrcZeroRunMap(n)

\* The register after the cells of s.  The test on w2 makes TLC compute each
\* step before the next one.
RECURSIVE CrcUpdate(_, _)
CrcNext(w2, rest) == IF w2 = {} THEN CrcUpdate({}, rest) ELSE CrcUpdate(w2, rest)

CrcUpdate(w, s) ==
    IF s = <<>> THEN w
    ELSE CrcNext(IF Head(s) < 0 THEN MapApply(RunMap(-Head(s)), w) ELSE CrcByte(w, Head(s)),
                 Tail(s))

\* Byte j of the word w.
WordByte(w, j) ==
    LET bit(i) == IF (8 * j + i) \in w THEN Pow2(i) ELSE 0
    IN  bit(0) + bit(1) + bit(2) + bit(3) + bit(4) + bit(5) + bit(6) + bit(7)

WordBytes(w) == << WordByte(w, 0), WordByte(w, 1), WordByte(w, 2), WordByte(w, 3) >>

\* The checksum of data, as the four bytes binary.Write puts in the file.
ChecksumIEEE(data) == WordBytes(Xor(0..31, CrcUpdate(0..31, data)))

(***************************************************************************)
(* The Bloom filter.  A 64-bit hash value is the sequence of its 8 bytes,  *)
(* lowest first (TLC's integers have 32 bits).                             *)
(***************************************************************************)
XorByte(a, b) ==
    LET bit(i) == IF ((a \div Pow2(i)) % 2) # ((b \div Pow2(i)) % 2) THEN Pow2(i) ELSE 0
    IN  bit(0) + bit(1) + bit(2) + bit(3) + bit(4) + bit(5) + bit(6) + bit(7)

\* hash/fnv: the 64-bit offset basis 14695981039346656037.
FnvOffset64 == <<37, 35, 34, 132, 228, 156, 242, 203>>

\* h * 1099511628211 mod 2^64; the prime is 2^40 + 435.  Bytes i..8 of the
\* product, given the carry into byte i.
RECURSIVE FnvMulFrom(_, _, _)
FnvMulFrom(h, i, carry) ==
    IF i > 8 THEN <<>>
    ELSE LET t == h[i] * 435 + (IF i >= 6 THEN h[i - 5] ELSE 0) + carry
         IN  <<t % 256>> \o FnvMulFrom(h, i + 1, t \div 256)

\* fnv.New64a, Write(bytes): for each byte, xor into the low byte and multiply.
RECURSIVE Fnv64a(_, _)
Fnv64a(h, bytes) ==
    IF bytes = <<>> THEN h
    ELSE LET x == <<XorByte(h[1], Head(bytes))>> \o Tail(h)
             p == FnvMulFrom(x, 1, 0)
         IN  IF p = <<>> THEN p ELSE Fnv64a(p, Tail(bytes))

\* The 64-bit value h modulo m.
RECURSIVE Mod64From(_, _, _, _)
Mod64From(h, i, r, m) ==
    IF i = 0 THEN r ELSE Mod64From(h, i - 1, (r * 256 + h[i]) % m, m)

\* BloomFilter.hash(data, seed) % m
BloomPos(data, seed, m) == Mod64From(Fnv64a(FnvOffset64, <<seed % 256>> \o data), 8, 0, m)

\* optimalM(n, 0.01) = ceil(-n * ln(0.01) / (ln 2)^2) = ceil(n * 9.585058...)
optimalM(n) == (n * 9585059 + 999999) \div 1000000

\* optimalK(n, m) = round((m / n) * ln 2), ln 2 = 0.693147...
optimalK(n, m) == (2 * m * 693147 + n * 1000000) \div (2 * n * 1000000)

\* NewBloomFilter(n, 0.01): a zeroed bitset of (m + 7) / 8 bytes.
NewBloomFilter(n) ==
    LET m == optimalM(n)
    IN  [bitset |-> [i \in 1..((m + 7) \div 8) |-> 0] \o <<>>, m |-> m, k |-> optimalK(n, m)]

BitIsSet(bitset, pos) == (bitset[(pos \div 8) + 1] \div Pow2(pos % 8)) % 2 = 1

SetBit(bitset, pos) ==
    IF BitIsSet(bitset, pos) THEN bitset
    ELSE [bitset EXCEPT ![(pos \div 8) + 1] = @ + Pow2(pos % 8)]

\* BloomFilter.Add: set the bit of each of the k hashes, from seed i on.
RECURSIVE BloomAddFrom(_, _, _)
BloomAddFrom(bf, data, i) ==
    IF i >= bf.k THEN bf
    ELSE BloomAddFrom([bf EXCEPT !.bitset = SetBit(@, BloomPos(data, i, bf.m))], data, i + 1)

\* An Add that sets no bit.
BloomAddNothing(bf, data) == bf

BloomAdd(bf, data) == BloomAddFrom(bf, data, 0)

\* BloomFilter.MightContains: false as soon as one of the k bits is clear.
\* A position beyond the bitset is Go's index-out-of-range panic.
MightContains(bf, data) ==
    \A i \in 0..(bf.k - 1) : BitIsSet(bf.bitset, BloomPos(data, i, bf.m))

(***************************************************************************)
(* Maps (Go's map[string]string) are functions on their set of keys.       *)
(***************************************************************************)
EmptyMap == <<>>

MapPut(m, k, v) == (k :> v) @@ m

Has(m, k) == k \in DOMAIN m

(***************************************************************************)
(* The binary codec: 4-byte length, then the bytes.                        *)
(***************************************************************************)
writeString(str) == PutUint32(ByteLen(str)) \o str

\* readString / readBytes on the rest of a file: err is "nil", "EOF" (no byte
\* left where the length starts, or none of a non-empty body) or
\* "ErrUnexpectedEOF" (cut inside).
StringBody(rest, length, body) ==
    IF ByteLen(body) < length
    THEN [err |-> IF ByteLen(body) = 0 THEN "EOF" ELSE "ErrUnexpectedEOF",
          str |-> <<>>, rest |-> <<>>]
    ELSE [err |-> "nil", str |-> body, rest |-> Drop(rest, 4 + length)]

StringAt(rest, h) ==
    IF ByteLen(h) = 0 THEN [err |-> "EOF", str |-> <<>>, rest |-> <<>>]
    ELSE IF ByteLen(h) < 4 THEN [err |-> "ErrUnexpectedEOF", str |-> <<>>, rest |-> <<>>]
    ELSE IF Int32(h) < 0 THEN [err |-> "panic", str |-> <<>>, rest |-> <<>>]
    ELSE CHOOSE r \in { StringBody(rest, Int32(h), body) :
                        body \in {Take(Drop(rest, 4), Int32(h))} } : TRUE

readString(rest) == CHOOSE r \in { StringAt(rest, h) : h \in {Take(rest, 4)} } : TRUE

(***************************************************************************)
(* The write-ahead log: u32 payload length, u32 CRC32 of the payload, and  *)
(* the payload u32 key length, key, u32 value length, value.               *)
(***************************************************************************)
NoFile == "absent"

\* The bytes WAL.writeBinaryRecord hands to its buffered writer: the length
\* and the checksum of the payload, then the payload.
RecordOf(data) == PutUint32(ByteLen(data)) \o ChecksumIEEE(data) \o data

writeBinaryRecord(key, value) ==
    RecordOf(PutUint32(ByteLen(key)) \o key \o PutUint32(ByteLen(value)) \o value)

\* readBinaryRecord on the rest of the file.  err: "nil", "EOF",
\* "ErrUnexpectedEOF", "CRC mismatch", or "panic" (a slice of the payload
\* out of its range).
RecordFail(e, r) == [err |-> e, key |-> <<>>, value |-> <<>>, rest |-> r]

RecordValue(data, length, keyLen, valueLen, after) ==
    IF valueLen > length - 8 - keyLen THEN RecordFail("panic", after)
    ELSE [err |-> "nil",
          key |-> Take(Drop(data, 4), keyLen),
          value |-> Take(Drop(data, 8 + keyLen), valueLen),
          rest |-> after]

RecordKey(data, length, keyLen, after) ==
    IF keyLen > length - 4 THEN RecordFail("panic", after)
    ELSE IF length - 4 - keyLen < 4 THEN RecordFail("panic", after)
    ELSE RecordValue(data, length, keyLen, Uint32(Take(Drop(data, 4 + keyLen), 4)), after)

RecordData(c, length, data, after) ==
    IF ByteLen(data) < length
    THEN RecordFail(IF ByteLen(data) = 0 THEN "EOF" ELSE "ErrUnexpectedEOF", <<>>)
    ELSE IF ChecksumIEEE(data) # c THEN RecordFail("CRC mismatch", after)
    ELSE IF length < 4 THEN RecordFail("panic", after)
    ELSE RecordKey(data, length, Uint32(Take(data, 4)), after)

RecordHeader(rest, h, c) ==
    IF ByteLen(h) = 0 THEN RecordFail("EOF", <<>>)
    ELSE IF ByteLen(h) < 4 THEN RecordFail("ErrUnexpectedEOF", <<>>)
    ELSE IF ByteLen(c) = 0 THEN RecordFail("EOF", <<>>)
    ELSE IF ByteLen(c) < 4 THEN RecordFail("ErrUnexpectedEOF", <<>>)
    ELSE RecordData(c, Uint32(h), Take(Drop(rest, 8), Uint32(h)), Drop(rest, 8 + Uint32(h)))

readBinaryRecord(rest) == RecordHeader(rest, Take(rest, 4), Take(Drop(rest, 4), 4))

RECURSIVE ReplayFrom(_, _)
\* A replay in which the first record of a key wins.
ReplayRecordFirstWins(r, replayData) ==
    IF r.err = "EOF" THEN [panic |-> FALSE, data |-> replayData]
    ELSE IF r.err = "panic" THEN [panic |-> TRUE, data |-> replayData]
    ELSE IF r.err # "nil" \/ Has(replayData, r.key) THEN ReplayFrom(r.rest, replayData)
    ELSE ReplayFrom(r.rest, MapPut(replayData, r.key, r.value))

\* The loop of Replay: stop at io.EOF, skip (log) any other error, and let the
\* last record of a key win.  panic: readBinaryRecord panicked.
ReplayRecord(r, replayData) ==
    IF r.err = "EOF" THEN [panic |-> FALSE, data |-> replayData]
    ELSE IF r.err = "panic" THEN [panic |-> TRUE, data |-> replayData]
    ELSE IF r.err # "nil" THEN ReplayFrom(r.rest, replayData)
    ELSE ReplayFrom(r.rest, MapPut(replayData, r.key, r.value))

ReplayFrom(rest, replayData) == ReplayRecord(readBinaryRecord(rest), replayData)

\* Replay(dir), given the content of dir/wal.log (NoFile when it does not exist).
Replay(walFile) ==
    IF walFile = NoFile THEN [panic |-> FALSE, data |-> EmptyMap]
    ELSE ReplayFrom(walFile, EmptyMap)

(***************************************************************************)
(* The SSTable file: data entries, Bloom filter (bitset, m, k), index      *)
(* entries (key, offset of the data entry) and the 16-byte footer          *)
(* (index offset, filter offset).  A table in memory is a record with its  *)
(* path, index and filter; kvs is a sequence of <<key, value>>.            *)
(***************************************************************************)
\* The loop of SSTable.Write over kvs: the data bytes written so far, the
\* filter and the index.
RECURSIVE WriteEntries(_, _, _, _)
WriteEntries(kvs, bytes, filter, index) ==
    IF kvs = <<>> THEN [bytes |-> bytes, filter |-> filter, index |-> index]
    ELSE WriteEntries(Tail(kvs),
                      bytes \o writeString(Head(kvs)[1]) \o writeString(Head(kvs)[2]),
                      BloomAdd(filter, Head(kvs)[1]),
                      Append(index, [key |-> Head(kvs)[1], offset |-> ByteLen(bytes)]))

RECURSIVE WriteIndex(_)
WriteIndex(index) ==
    IF index = <<>> THEN <<>>
    ELSE writeString(Head(index).key) \o PutInt64(Head(index).offset) \o WriteIndex(Tail(index))

\* The filter section: the bitset, m and k.
FilterBytes(filter) == writeString(filter.bitset) \o PutInt64(filter.m) \o PutInt64(filter.k)

\* The file: data entries, filter, index, and the footer with the offsets of
\* the index and of the filter.
SSTableBytes(e, filterBytes) ==
    e.bytes \o filterBytes \o WriteIndex(e.index)
    \o PutInt64(ByteLen(e.bytes) + ByteLen(filterBytes)) \o PutInt64(ByteLen(e.bytes))

WrittenTable(e) ==
    [bytes |-> SSTableBytes(e, FilterBytes(e.filter)), index |-> e.index, filter |-> e.filter]

\* SSTable.Write(kvs): the bytes of the file and the table's index and filter.
SSTableWrite(kvs) == WrittenTable(WriteEntries(kvs, <<>>, NewBloomFilter(Len(kvs)), <<>>))

\* The index loop of SSTable.Load: entries are read until readString meets the
\* end of the file; an entry whose key is complete and whose offset is not
\* fails the load.
RECURSIVE LoadIndex(_, _)
IndexEntry(k, o, index) ==
    IF k.err = "panic" THEN [ok |-> FALSE, panic |-> TRUE, index |-> index]
    ELSE IF k.err # "nil" THEN [ok |-> TRUE, panic |-> FALSE, index |-> index]
    ELSE IF ByteLen(o) < 8 THEN [ok |-> FALSE, panic |-> FALSE, index |-> index]
    ELSE LoadIndex(Drop(k.rest, 8), Append(index, [key |-> k.str, offset |-> Int64(o)]))

IndexKey(k, index) == IndexEntry(k, Take(k.rest, 8), index)

\* (The one-element sets bind each intermediate result to a value, which is
\* then computed once.)
LoadIndex(rest, index) ==
    CHOOSE r \in { IndexKey(k, index) : k \in {readString(rest)} } : TRUE

LoadFailed ==
    [ok |-> FALSE, panic |-> FALSE, index |-> <<>>, filter |-> [bitset |-> <<>>, m |-> 0, k |-> 0]]

\* readBytes or readString panicked (make with a negative length).
LoadPanic == [LoadFailed EXCEPT !.panic = TRUE]

LoadParts(bits, mk, idx) ==
    IF bits.err = "panic" THEN LoadPanic
    ELSE IF bits.err # "nil" THEN LoadFailed
    ELSE IF ByteLen(mk) < 16 THEN LoadFailed
    ELSE IF idx.panic THEN LoadPanic
    ELSE IF ~idx.ok THEN LoadFailed
    ELSE [ok |-> TRUE,
          panic |-> FALSE,
          index |-> idx.index,
          filter |-> [bitset |-> bits.str, m |-> Int64(Take(mk, 8)), k |-> Int64(Drop(mk, 8))]]

\* (file.Seek to a negative offset is an error; beyond the end it is not.)
LoadFilter(file, bits, indexOffset) ==
    CHOOSE r \in { LoadParts(bits, mk, idx) :
                   mk \in {Take(bits.rest, 16)},
                   idx \in {IF indexOffset < 0
                            THEN [ok |-> FALSE, panic |-> FALSE, index |-> <<>>]
                            ELSE LoadIndex(Drop(file, indexOffset), <<>>)} } : TRUE

\* footer: the last 16 bytes, index offset then filter offset.
LoadFooter(file, footer) ==
    IF Int64(Drop(footer, 8)) < 0 THEN LoadFailed
    ELSE CHOOSE r \in { LoadFilter(file, bits, Int64(Take(footer, 8))) :
                        bits \in {readString(Drop(file, Int64(Drop(footer, 8))))} } : TRUE

\* SSTable.Load on the bytes of the file (NoFile: os.Open fails).
SSTableLoad(file) ==
    IF file = NoFile THEN LoadFailed
    ELSE IF ByteLen(file) < 16 THEN LoadFailed
    ELSE CHOOSE r \in { LoadFooter(file, footer) :
                        footer \in {Drop(file, ByteLen(file) - 16)} } : TRUE

\* sort.Search(n, f) with f(i) = index[i].key >= key, on positions i..j
\* (0-based, as in Go): the binary search of the standard library.
RECURSIVE SortSearch(_, _, _, _)
SortSearch(index, key, i, j) ==
    IF i >= j THEN i
    ELSE LET h == (i + j) \div 2
         IN  IF ~StrLeq(key, index[h + 1].key) THEN SortSearch(index, key, h + 1, j)
             ELSE SortSearch(index, key, i, h)

Miss == [ok |-> FALSE, value |-> <<>>]

\* SSTable.BinarySearch(key) on table sst, file being the content at sst.path.
BinarySearch(sst, file, key) ==
    LET i == SortSearch(sst.index, key, 0, Len(sst.index))
        off == sst.index[i + 1].offset
        k == readString(Drop(file, off))
        v == readString(k.rest)
    IN  IF ~MightContains(sst.filter, key) THEN Miss
        ELSE IF i = Len(sst.index) THEN Miss
        ELSE IF sst.index[i + 1].key # key THEN Miss
        ELSE IF file = NoFile THEN Miss
        ELSE IF k.err # "nil" \/ k.str # key THEN Miss
        ELSE IF v.err # "nil" THEN Miss
        ELSE [ok |-> TRUE, value |-> v.str]

\* SSTable.readKVFromMmap(offset): the data entry at offset of the mapped file.
EntryOf(file, k, v) ==
    IF file = NoFile \/ k.err # "nil" \/ v.err # "nil"
    THEN [ok |-> FALSE, key |-> <<>>, value |-> <<>>]
    ELSE [ok |-> TRUE, key |-> k.str, value |-> v.str]

EntryAfter(file, k) == EntryOf(file, k, readString(k.rest))

readKVFromMmap(file, offset) == EntryAfter(file, readString(Drop(file, offset)))

(***************************************************************************)
(* The engine.                                                             *)
(***************************************************************************)
VARIABLES
    disk,       \* the data directory: file name -> bytes of the file
    synced,     \* the names of the files whose content has been fsynced
    clock,      \* time.Now().UnixNano(), counted from the start of the model
    up,         \* TRUE while a DB value made by NewDB is in use
    memTable,   \* DB.memTable
    wal,        \* DB.wal: [open: the file is open, err: the writer's sticky error]
    levels,     \* DB.levels: 7 sequences of tables [path, index, filter]
    hist,       \* history of the run (not program state): what was acknowledged
    batch,      \* the GetBatch or GetBatchParallel in progress, NoBatch when none
    last        \* the last operation and its outcome (not program state)

vars == <<disk, synced, clock, up, memTable, wal, levels, batch, hist, last>>

\* batch: [active, parallel, keys, results: the slice the call returns, got:
\* what each worker holds after its Get, pc: where each worker is].
NoBatch ==
    [active |-> FALSE, parallel |-> FALSE, keys |-> <<>>, results |-> <<>>, got |-> <<>>,
     pc |-> <<>>]

\* The inputs.
K1 == <<1>>
K2 == <<2>>
Keys == {K1, K2}
SmallValue == <<7>>
\* A value of 10 MiB: a table that holds it reaches the byte cap of level 1.
BigValue == <<-LongRun>>
Values == {SmallValue, BigValue}

NumLevels == 7

\* levelPolicies: maxFiles, and maxSize in MiB (every cap is a whole number
\* of MiB; 0 is no cap).
LevelPolicies ==
    << [maxFiles |-> 4, maxSizeMiB |-> 0],
       [maxFiles |-> 10, maxSizeMiB |-> 10],
       [maxFiles |-> 10, maxSizeMiB |-> 100],
       [maxFiles |-> 10, maxSizeMiB |-> 1000],
       [maxFiles |-> 10, maxSizeMiB |-> 10000],
       [maxFiles |-> 10, maxSizeMiB |-> 100000],
       [maxFiles |-> 10, maxSizeMiB |-> 1000000] >>

\* File names.  <<"wal", 0, 0>> is wal.log; <<"sst", 0, t>> is sstable_<t>.sst;
\* <<"sst", n, t>> with n >= 1 is sstable_l<n>_<t>.sst; <<"tmp", n, t>> is the
\* same name with ".tmp" appended.
walFilePath == <<"wal", 0, 0>>
SstPath(level, t) == <<"sst", level, t>>
TmpPath(level, t) == <<"tmp", level, t>>

\* The characters of a file name after "sstable_", for sort.Strings: the
\* nanosecond count has 19 digits in any year from 2001 to 2262, so all counts
\* have the same width; the model writes the last two digits.
NameChars(name) ==
    (IF name[2] = 0 THEN <<>> ELSE <<108, 48 + name[2], 95>>)
    \o <<48 + (name[3] \div 10), 48 + (name[3] % 10)>>

FileOf(d, name) == IF name \in DOMAIN d THEN d[name] ELSE NoFile

WriteFile(d, name, bytes) == (name :> bytes) @@ d

RemoveFile(d, name) == [n \in DOMAIN d \ {name} |-> d[n]] @@ <<>>

RenameFile(d, old, new) == (new :> d[old]) @@ RemoveFile(d, old)

\* sort.Strings on a set of keys, as a sequence.
RECURSIVE SortStrings(_)
SortStrings(S) ==
    IF S = {} THEN <<>>
    ELSE LET m == CHOOSE x \in S : \A y \in S : StrLeq(x, y)
         IN  <<m>> \o SortStrings(S \ {m})

\* filepath.Glob(dir/*.sst) followed by sort.Strings.
RECURSIVE SortNames(_)
SortNames(S) ==
    IF S = {} THEN <<>>
    ELSE LET m == CHOOSE x \in S : \A y \in S : StrLeq(NameChars(x), NameChars(y))
         IN  <<m>> \o SortNames(S \ {m})

GlobSst(d) == SortNames({ n \in DOMAIN d : n[1] = "sst" })

\* The key-value pairs of a map in ascending key order.
SortedKVs(m) ==
    LET keys == SortStrings(DOMAIN m)
    IN  [i \in 1..Len(keys) |-> <<keys[i], m[keys[i]]>>] \o <<>>

World == [disk |-> disk, synced |-> synced, clock |-> clock,
          memTable |-> memTable, wal |-> wal, levels |-> levels]

(***************************************************************************)
(* DB.Get                                                                  *)
(***************************************************************************)
NotFound == [ok |-> FALSE, value |-> <<>>]

\* Level 0 searched from the first table to the last.
RECURSIVE GetL0Forward(_, _, _, _)
GetL0Forward(d, level, i, key) ==
    IF i = 0 THEN NotFound
    ELSE LET sst == level[Len(level) + 1 - i]
             r == IF Len(sst.index) = 0 THEN Miss
                  ELSE BinarySearch(sst, FileOf(d, sst.path), key)
         IN  IF r.ok THEN r ELSE GetL0Forward(d, level, i - 1, key)

\* Level 0: from the last table to the first, the first hit.
RECURSIVE GetL0(_, _, _, _)
GetL0(d, level, i, key) ==
    IF i = 0 THEN NotFound
    ELSE LET sst == level[i]
             r == IF Len(sst.index) = 0 THEN Miss
                  ELSE BinarySearch(sst, FileOf(d, sst.path), key)
         IN  IF r.ok THEN r ELSE GetL0(d, level, i - 1, key)

\* Levels 1..6: the first table whose key range holds the key is probed, and
\* a miss in it ends the search of the level.
RECURSIVE GetLn(_, _, _, _)
GetLn(d, level, i, key) ==
    IF i > Len(level) THEN NotFound
    ELSE LET sst == level[i]
             n == Len(sst.index)
         IN  IF n = 0 THEN GetLn(d, level, i + 1, key)
             ELSE IF StrLeq(sst.index[1].key, key) /\ StrLeq(key, sst.index[n].key)
                  THEN BinarySearch(sst, FileOf(d, sst.path), key)
                  ELSE GetLn(d, level, i + 1, key)

RECURSIVE GetLevels(_, _, _)
GetLevels(w, levelNum, key) ==
    IF levelNum >= Len(w.levels) THEN NotFound
    ELSE LET level == w.levels[levelNum + 1]
             r == IF levelNum = 0 THEN GetL0(w.disk, level, Len(level), key)
                  ELSE GetLn(w.disk, level, 1, key)
         IN  IF r.ok THEN r ELSE GetLevels(w, levelNum + 1, key)

\* A Get that does not look at the memtable.
DBGetSkipMemTable(w, key) == GetLevels(w, 0, key)

DBGet(w, key) ==
    IF Has(w.memTable, key) THEN [ok |-> TRUE, value |-> w.memTable[key]]
    ELSE GetLevels(w, 0, key)

Get(key) == DBGet(World, key)

(***************************************************************************)
(* Compaction.                                                             *)
(***************************************************************************)
\* The sizes of the files of a level; a table whose Stat fails counts for 0.
RECURSIVE LevelSize(_, _)
LevelSize(d, levelFiles) ==
    IF levelFiles = <<>> THEN 0
    ELSE (IF Head(levelFiles).path \in DOMAIN d THEN ByteLen(d[Head(levelFiles).path]) ELSE 0)
         + LevelSize(d, Tail(levelFiles))

\* A policy under which no level is ever due.
needsCompactionNever(w, level) == FALSE

\* DB.needsCompaction(level).  totalSize >= maxSize is compared in MiB, which
\* is exact because every maxSize is a whole number of MiB.
needsCompaction(w, level) ==
    LET policy == LevelPolicies[level + 1]
        levelFiles == w.levels[level + 1]
    IN  \/ Len(levelFiles) >= policy.maxFiles
        \/ /\ policy.maxSizeMiB > 0
           /\ LevelSize(w.disk, levelFiles) \div (1024 * 1024) >= policy.maxSizeMiB

\* DB.extractAllKVsFromSSTable: the entries of the index that can be read.
RECURSIVE ExtractFrom(_, _, _)
ExtractEntry(r, file, index, i) ==
    (IF r.ok THEN << <<r.key, r.value>> >> ELSE <<>>) \o ExtractFrom(file, index, i + 1)

ExtractFrom(file, index, i) ==
    IF i > Len(index) THEN <<>>
    ELSE ExtractEntry(readKVFromMmap(file, index[i].offset), file, index, i)

extractAllKVsFromSSTable(d, sst) == ExtractFrom(FileOf(d, sst.path), sst.index, 1)

RECURSIVE PutAll(_, _, _)
PutAll(allKVs, kvs, overwrite) ==
    IF kvs = <<>> THEN allKVs
    ELSE LET kv == Head(kvs)
             m == IF overwrite \/ ~Has(allKVs, kv[1]) THEN MapPut(allKVs, kv[1], kv[2]) ELSE allKVs
         IN  PutAll(m, Tail(kvs), overwrite)

\* The two loops of compactLevel that fill allKVs: the tables of the level in
\* list order, each entry overwriting; then the tables of the next level, an
\* entry only where the key is absent.
RECURSIVE MergeTables(_, _, _, _)
MergeTables(d, tables, allKVs, overwrite) ==
    IF tables = <<>> THEN allKVs
    ELSE MergeTables(d, Tail(tables),
                     PutAll(allKVs, extractAllKVsFromSSTable(d, Head(tables)), overwrite),
                     overwrite)

\* The content of a table as a map.
TableMap(d, sst) == PutAll(EmptyMap, extractAllKVsFromSSTable(d, sst), TRUE)

TableMaps(d, tables) == [i \in 1..Len(tables) |-> TableMap(d, tables[i])] \o <<>>

\* One step of an operation: the call made, the world after it succeeded, the
\* world after it failed, whether it can fail (an I/O error) or must fail (in
\* this world it returns an error for sure), and the level being compacted
\* (-1 in the flush itself).
Step(call, okW, badW, canFail, must, level) ==
    [call |-> call, ok |-> okW, bad |-> badW, canFail |-> canFail, must |-> must,
     level |-> level]

\* The bytes a writer has put in a file when it stops half-way.
Partial(bytes) == Take(bytes, ByteLen(bytes) \div 2)

\* A merge that leaves out the tables of the next level.
MergedKVsLevelOnly(w, level) ==
    MergeTables(w.disk, w.levels[level + 1], EmptyMap, TRUE)

\* A merge in which the tables of the next level overwrite.
MergedKVsNextWins(w, level) ==
    MergeTables(w.disk, w.levels[level + 2],
                MergeTables(w.disk, w.levels[level + 1], EmptyMap, TRUE), TRUE)

\* The map compactLevel(level) builds: the tables of the level in order, each
\* overwriting, then the tables of the next level for the absent keys only.
MergedKVs(w, level) ==
    MergeTables(w.disk, w.levels[level + 2],
                MergeTables(w.disk, w.levels[level + 1], EmptyMap, TRUE), FALSE)

\* A loaded table as it is kept in a level.
TableOf(path, ld) == [path |-> path, index |-> ld.index, filter |-> ld.filter]

LoadedTable(d, path) == TableOf(path, SSTableLoad(FileOf(d, path)))

\* A flush that closes and removes the WAL before it writes the table.
FlushCallsWalFirst ==
    << [name |-> "WAL.Close"], [name |-> "Remove"], [name |-> "Write"], [name |-> "fileSync"],
       [name |-> "Rename"], [name |-> "Load"], [name |-> "NewWAL"], [name |-> "assign"] >>

\* A flush that renames the table before it syncs it.
FlushCallsRenameFirst ==
    << [name |-> "Write"], [name |-> "Rename"], [name |-> "fileSync"], [name |-> "Load"],
       [name |-> "WAL.Close"], [name |-> "Remove"], [name |-> "NewWAL"], [name |-> "assign"] >>

\* The calls of DB.Flush up to the compaction pass.
FlushCalls ==
    << [name |-> "Write"], [name |-> "fileSync"], [name |-> "Rename"], [name |-> "Load"],
       [name |-> "WAL.Close"], [name |-> "Remove"], [name |-> "NewWAL"], [name |-> "assign"] >>

\* A compaction that removes its input files before it loads the merged table.
compactLevelRemovesBeforeLoad(w, level) ==
    << [name |-> "Write"], [name |-> "fileSync"], [name |-> "Rename"] >>
    \o [i \in 1..Len(w.levels[level + 1]) |->
            [name |-> "RemoveInput", path |-> w.levels[level + 1][i].path]]
    \o [i \in 1..Len(w.levels[level + 2]) |->
            [name |-> "RemoveInput", path |-> w.levels[level + 2][i].path]]
    \o << [name |-> "Load"], [name |-> "assign"] >>

\* A compaction that removes its input files before it renames the merged table.
compactLevelRemovesFirst(w, level) ==
    << [name |-> "Write"], [name |-> "fileSync"] >>
    \o [i \in 1..Len(w.levels[level + 1]) |->
            [name |-> "RemoveInput", path |-> w.levels[level + 1][i].path]]
    \o [i \in 1..Len(w.levels[level + 2]) |->
            [name |-> "RemoveInput", path |-> w.levels[level + 2][i].path]]
    \o << [name |-> "Rename"], [name |-> "Load"], [name |-> "assign"] >>

\* The calls of DB.compactLevel(level): the input tables are closed and
\* removed one by one, those of the level first.
compactLevel(w, level) ==
    << [name |-> "Write"], [name |-> "fileSync"], [name |-> "Rename"], [name |-> "Load"] >>
    \o [i \in 1..Len(w.levels[level + 1]) |->
            [name |-> "RemoveInput", path |-> w.levels[level + 1][i].path]]
    \o [i \in 1..Len(w.levels[level + 2]) |->
            [name |-> "RemoveInput", path |-> w.levels[level + 2][i].path]]
    \o << [name |-> "assign"] >>

\* SSTable.Write to the temporary file: whole, or cut by an error.
WriteStep(w, tmpPath, bytes, level) ==
    Step("Write",
         [w EXCEPT !.clock = @ + 1, !.disk = WriteFile(@, tmpPath, bytes)],
         [w EXCEPT !.clock = @ + 1, !.disk = WriteFile(@, tmpPath, Partial(bytes))],
         TRUE, FALSE, level)

\* Assignments that leave the memtable as it was.
AssignStepKeepsMemTable(w, sst, level) ==
    Step("assign",
         IF level < 0
         THEN [w EXCEPT !.levels = [@ EXCEPT ![1] = Append(@, sst)]]
         ELSE [w EXCEPT !.levels = [@ EXCEPT ![level + 1] = <<>>, ![level + 2] = <<sst>>]],
         w, FALSE, FALSE, level)

\* Assignments of a compaction that append the merged table to the next level.
AssignStepAppends(w, sst, level) ==
    Step("assign",
         IF level < 0
         THEN [w EXCEPT !.memTable = EmptyMap, !.levels = [@ EXCEPT ![1] = Append(@, sst)]]
         ELSE [w EXCEPT !.levels = [@ EXCEPT ![level + 1] = <<>>, ![level + 2] = Append(@, sst)]],
         w, FALSE, FALSE, level)

\* The assignments that end DB.Flush (level = -1) and DB.compactLevel(level).
AssignStep(w, sst, level) ==
    Step("assign",
         IF level < 0
         THEN [w EXCEPT !.memTable = EmptyMap, !.levels = [@ EXCEPT ![1] = Append(@, sst)]]
         ELSE [w EXCEPT !.levels = [@ EXCEPT ![level + 1] = <<>>, ![level + 2] = <<sst>>]],
         w, FALSE, FALSE, level)

\* One call of DB.Flush (level = -1) or of DB.compactLevel(level) in world w.
\* The file written is sstable_<t>.sst or sstable_l<level+1>_<t>.sst, t being
\* the time at which the operation started.
DoCall(w, call, level, t) ==
    CASE call.name = "Write" ->
           CHOOSE st \in { WriteStep(w, TmpPath(level + 1, t), bytes, level) :
                            bytes \in {SSTableWrite(SortedKVs(IF level < 0 THEN w.memTable
                                                              ELSE MergedKVs(w, level))).bytes} } : TRUE
      [] call.name = "fileSync" ->
           Step("fileSync", [w EXCEPT !.synced = @ \cup {TmpPath(level + 1, t)}], w,
                TRUE, FALSE, level)
      [] call.name = "Rename" ->
           Step("Rename",
                [w EXCEPT !.disk = RenameFile(@, TmpPath(level + 1, t), SstPath(level + 1, t)),
                          !.synced = (@ \ {TmpPath(level + 1, t)}) \cup {SstPath(level + 1, t)}],
                w, TRUE, FALSE, level)
      [] call.name = "Load" ->
           Step("Load", w, w, TRUE,
                ~SSTableLoad(FileOf(w.disk, SstPath(level + 1, t))).ok, level)
      \* WAL.Close: the writer's Flush returns its sticky error before the
      \* file is closed, and closing a file twice is an error.
      [] call.name = "WAL.Close" ->
           Step("WAL.Close",
                [w EXCEPT !.wal = [open |-> FALSE, err |-> FALSE]],
                IF w.wal.err THEN w ELSE [w EXCEPT !.wal = [open |-> FALSE, err |-> FALSE]],
                TRUE, w.wal.err \/ ~w.wal.open, level)
      [] call.name = "Remove" ->
           Step("Remove",
                [w EXCEPT !.disk = RemoveFile(@, walFilePath), !.synced = @ \ {walFilePath}],
                w, TRUE, FALSE, level)
      \* NewWAL: O_APPEND|O_CREATE
      [] call.name = "NewWAL" ->
           Step("NewWAL",
                [w EXCEPT !.disk = IF walFilePath \in DOMAIN @ THEN @
                                   ELSE WriteFile(@, walFilePath, <<>>),
                          !.wal = [open |-> TRUE, err |-> FALSE]],
                w, TRUE, FALSE, level)
      \* an error of Close or os.Remove is logged and the loop goes on
      [] call.name = "RemoveInput" ->
           Step("RemoveInput",
                [w EXCEPT !.disk = RemoveFile(@, call.path), !.synced = @ \ {call.path}],
                w, FALSE, FALSE, level)
      [] call.name = "assign" ->
           AssignStep(w, LoadedTable(w.disk, SstPath(level + 1, t)), level)

\* The calls one after the other, each in the world the one before left; when
\* they are done, DB.maybeCompact goes on with the next level.
RECURSIVE RunCalls(_, _, _, _), maybeCompact(_, _)
StepThen(st, calls, level, t) == <<st>> \o RunCalls(st.ok, calls, level, t)

RunCalls(w, calls, level, t) ==
    IF calls = <<>> THEN maybeCompact(w, level + 1)
    ELSE CHOOSE steps \in { StepThen(st, Tail(calls), level, t) :
                            st \in {DoCall(w, Head(calls), level, t)} } : TRUE

\* DB.maybeCompact from the given level on: the steps of every compaction made.
maybeCompact(w, level) ==
    IF level >= NumLevels - 1 THEN <<>>
    ELSE IF needsCompaction(w, level)
         THEN RunCalls(w, compactLevel(w, level), level, w.clock)
         ELSE maybeCompact(w, level + 1)

\* DB.Flush on a non-empty memtable, call by call, compactions included.
FlushSteps(w) == RunCalls(w, FlushCalls, -1, w.clock)

\* The index of the first step that must fail (0 when there is none).
FirstMust(steps) ==
    IF \E i \in 1..Len(steps) : steps[i].must
    THEN CHOOSE i \in 1..Len(steps) : steps[i].must /\ \A j \in 1..(i - 1) : ~steps[j].must
    ELSE 0

\* The world after the first n steps.
WorldAfter(w, steps, n) == IF n = 0 THEN w ELSE steps[n].ok

(***************************************************************************)
(* The state machine.                                                      *)
(***************************************************************************)
NoLevels == [i \in 1..NumLevels |-> <<>>] \o <<>>

NoWal == [open |-> FALSE, err |-> FALSE]

NoWorld == [disk |-> <<>>, synced |-> {}, clock |-> 0, memTable |-> EmptyMap,
            wal |-> NoWal, levels |-> NoLevels]

SetWorld(w) ==
    /\ disk' = w.disk
    /\ synced' = w.synced
    /\ clock' = w.clock
    /\ memTable' = w.memTable
    /\ wal' = w.wal
    /\ levels' = w.levels

\* The process ends (Close, or a crash): the directory is what is left.
Down(w) ==
    /\ disk' = w.disk
    /\ synced' = w.synced
    /\ clock' = w.clock
    /\ up' = FALSE
    /\ memTable' = EmptyMap
    /\ wal' = NoWal
    /\ levels' = NoLevels

\* What the history keeps of an operation: its name, whether it returned nil,
\* the world before it, its arguments, and for a flush the number of calls
\* that succeeded and the call that failed (0: none).
Last(op, ok, key, value, n, failed) ==
    [op |-> op, ok |-> ok, pre |-> World, key |-> key, value |-> value,
     n |-> n, failed |-> failed, steps |-> <<>>]

\* The same for a flush, with the calls it was made of.
LastFlush(op, ok, steps, n, failed) ==
    [op |-> op, ok |-> ok, pre |-> World, key |-> <<>>, value |-> <<>>,
     n |-> n, failed |-> failed, steps |-> steps]

\* NewDB on an empty directory (NewWAL has created wal.log).
Init ==
    /\ disk = (walFilePath :> <<>>)
    /\ synced = {}
    /\ clock = 1
    /\ up = TRUE
    /\ memTable = EmptyMap
    /\ wal = [open |-> TRUE, err |-> FALSE]
    /\ levels = NoLevels
    /\ hist = [acked |-> EmptyMap, sess |-> EmptyMap, puts |-> 0, walRecs |-> 0, bigPuts |-> 0,
               restarts |-> 0, faults |-> 0, failed |-> 0, torn |-> FALSE,
               cleanEnd |-> FALSE, preClose |-> NoWorld]
    /\ batch = NoBatch
    /\ last = [op |-> "Open", ok |-> TRUE, pre |-> NoWorld, key |-> <<>>, value |-> <<>>,
               n |-> 0, failed |-> 0, steps |-> <<>>]

\* A Put that takes the empty key like any other.
PutEmptyKeyAccepted(value) ==
    /\ up /\ wal.open /\ ~wal.err
    /\ disk' = WriteFile(disk, walFilePath,
                         FileOf(disk, walFilePath) \o writeBinaryRecord(<<>>, value))
    /\ memTable' = MapPut(memTable, <<>>, value)
    /\ UNCHANGED batch
    /\ last' = Last("Put", TRUE, <<>>, value, 0, 0)
    /\ UNCHANGED <<synced, clock, up, wal, levels, hist>>

\* DB.Put with an empty key.
PutEmptyKey(value) ==
    /\ up
    /\ UNCHANGED batch
    /\ last' = Last("Put", FALSE, <<>>, value, 0, 0)
    /\ UNCHANGED <<disk, synced, clock, up, memTable, wal, levels, hist>>

\* DB.Put: WAL.Append writes the record and flushes the writer, then the
\* memtable is updated.
PutOk(key, value) ==
    /\ up /\ wal.open /\ ~wal.err
    /\ hist.walRecs < MaxWalRecords
    /\ value = BigValue => hist.bigPuts < MaxBigPuts
    /\ disk' = WriteFile(disk, walFilePath,
                         FileOf(disk, walFilePath) \o writeBinaryRecord(key, value))
    /\ memTable' = MapPut(memTable, key, value)
    /\ hist' = [hist EXCEPT !.acked = MapPut(@, key, value),
                            !.sess = MapPut(@, key, value),
                            !.puts = @ + 1,
                            !.walRecs = @ + 1,
                            !.bigPuts = @ + (IF value = BigValue THEN 1 ELSE 0)]
    /\ UNCHANGED batch
    /\ last' = Last("Put", TRUE, key, value, 0, 0)
    /\ UNCHANGED <<synced, clock, up, wal, levels>>

\* A Put that sets the key before it appends to the WAL.
PutFaultMemTableFirst(key, value, n) ==
    /\ up /\ wal.open /\ ~wal.err
    /\ hist.faults < MaxFaults
    /\ disk' = WriteFile(disk, walFilePath,
                         FileOf(disk, walFilePath) \o Take(writeBinaryRecord(key, value), n))
    /\ wal' = [wal EXCEPT !.err = TRUE]
    /\ memTable' = MapPut(memTable, key, value)
    /\ hist' = [hist EXCEPT !.faults = @ + 1, !.torn = @ \/ n > 0]
    /\ UNCHANGED batch
    /\ last' = Last("Put", FALSE, key, value, 0, 1)
    /\ UNCHANGED <<synced, clock, up, levels>>

\* DB.Put when a write to the file fails after n bytes: the bytes that reached
\* the file stay, the writer keeps its error, the memtable is not touched.
PutFault(key, value, n) ==
    /\ up /\ wal.open /\ ~wal.err
    /\ hist.faults < MaxFaults
    /\ disk' = WriteFile(disk, walFilePath,
                         FileOf(disk, walFilePath) \o Take(writeBinaryRecord(key, value), n))
    /\ wal' = [wal EXCEPT !.err = TRUE]
    /\ hist' = [hist EXCEPT !.faults = @ + 1, !.torn = @ \/ n > 0]
    /\ UNCHANGED batch
    /\ last' = Last("Put", FALSE, key, value, 0, 1)
    /\ UNCHANGED <<synced, clock, up, memTable, levels>>

\* DB.Put on a WAL whose writer has an error or whose file is closed.
PutBroken(key, value) ==
    /\ up /\ (wal.err \/ ~wal.open)
    /\ wal' = [wal EXCEPT !.err = TRUE]
    /\ UNCHANGED batch
    /\ last' = Last("Put", FALSE, key, value, 0, 1)
    /\ UNCHANGED <<disk, synced, clock, up, memTable, levels, hist>>

\* A Flush that runs the compaction pass although the memtable is empty.
FlushEmptyCompacts ==
    /\ up /\ memTable = EmptyMap
    /\ \E steps \in {maybeCompact(World, 0)} :
           /\ IF steps = <<>>
              THEN UNCHANGED <<disk, synced, clock, memTable, wal, levels>>
              ELSE SetWorld(steps[Len(steps)].ok)
           /\ last' = LastFlush("Flush", TRUE, steps, Len(steps), 0)
    /\ UNCHANGED <<up, batch, hist>>

\* DB.Flush on an empty memtable.
FlushEmpty ==
    /\ up /\ memTable = EmptyMap
    /\ UNCHANGED batch
    /\ last' = Last("Flush", TRUE, <<>>, <<>>, 0, 0)
    /\ UNCHANGED <<disk, synced, clock, up, memTable, wal, levels, hist>>

\* The history after a flush of which n calls succeeded: from the sixth call
\* on the old WAL file is gone.
FlushHist(n, fault, failed) ==
    [hist EXCEPT !.walRecs = IF n >= 6 THEN 0 ELSE @,
                 !.faults = @ + (IF fault THEN 1 ELSE 0),
                 !.failed = @ + (IF failed THEN 1 ELSE 0)]

\* DB.Flush when no call fails but those the state forces to: an error in the
\* flush itself is returned, an error in a compaction is logged.
FlushEnds(steps, m) ==
    IF m = 0
    THEN /\ SetWorld(steps[Len(steps)].ok)
         /\ hist' = FlushHist(Len(steps), FALSE, FALSE)
         /\ UNCHANGED batch
         /\ last' = LastFlush("Flush", TRUE, steps, Len(steps), 0)
    ELSE /\ hist.failed < MaxFailedFlushes
         /\ SetWorld(steps[m].bad)
         /\ hist' = FlushHist(m - 1, FALSE, TRUE)
         /\ UNCHANGED batch
         /\ last' = LastFlush("Flush", steps[m].level >= 0, steps, m - 1, m)

Flush ==
    /\ up /\ memTable # EmptyMap
    /\ \E steps \in {FlushSteps(World)} : \E m \in {FirstMust(steps)} : FlushEnds(steps, m)
    /\ UNCHANGED up

\* A flush that returns the error of its compaction pass.
FlushFailsOnCompaction(steps, m) ==
    \E i \in 1..(IF m = 0 THEN Len(steps) ELSE m - 1) :
        /\ steps[i].canFail
        /\ SetWorld(steps[i].bad)
        /\ hist' = FlushHist(i - 1, TRUE, FALSE)
        /\ UNCHANGED batch
        /\ last' = LastFlush("Flush", FALSE, steps, i - 1, i)

\* DB.Flush where call i fails with an I/O error.
FlushFails(steps, m) ==
    \E i \in 1..(IF m = 0 THEN Len(steps) ELSE m - 1) :
        /\ steps[i].canFail
        /\ SetWorld(steps[i].bad)
        /\ hist' = FlushHist(i - 1, TRUE, FALSE)
        /\ UNCHANGED batch
        /\ last' = LastFlush("Flush", steps[i].level >= 0, steps, i - 1, i)

FlushFault ==
    /\ up /\ memTable # EmptyMap
    /\ hist.faults < MaxFaults
    /\ \E steps \in {FlushSteps(World)} : \E m \in {FirstMust(steps)} : FlushFails(steps, m)
    /\ UNCHANGED up

\* The process dies during DB.Flush: after call i, or inside it.
FlushDies(steps, m) ==
    \E i \in 1..(IF m = 0 THEN Len(steps) ELSE m - 1), inside \in BOOLEAN :
        /\ Down(IF inside THEN steps[i].bad ELSE steps[i].ok)
        /\ hist' = [FlushHist(IF inside THEN i - 1 ELSE i, FALSE, FALSE) EXCEPT !.cleanEnd = FALSE]
        /\ UNCHANGED batch
        /\ last' = LastFlush("Crash", FALSE, steps, IF inside THEN i - 1 ELSE i, i)

FlushCrash ==
    /\ up /\ memTable # EmptyMap
    /\ hist.restarts < MaxRestarts
    /\ \E steps \in {FlushSteps(World)} : \E m \in {FirstMust(steps)} : FlushDies(steps, m)

\* DB.Close, after which the process ends.
Close ==
    /\ up
    /\ hist.restarts < MaxRestarts
    /\ Down(World)
    /\ hist' = [hist EXCEPT !.cleanEnd = (last.op = "Flush" /\ last.ok), !.preClose = World]
    /\ UNCHANGED batch
    /\ last' = Last("Close", ~wal.err /\ wal.open, <<>>, <<>>, 0, 0)

\* The loop of NewDB over the sorted *.sst files: a file that fails to load
\* is skipped, every other one is appended to level 0.
RECURSIVE LoadAll(_, _)
LoadJoin(sst, rest) == [panic |-> rest.panic, tables |-> sst \o rest.tables]

LoadNext(d, files, ld) ==
    IF ld.panic THEN [panic |-> TRUE, tables |-> <<>>]
    ELSE LoadJoin(IF ld.ok THEN <<TableOf(Head(files), ld)>> ELSE <<>>, LoadAll(d, Tail(files)))

LoadAll(d, files) ==
    IF files = <<>> THEN [panic |-> FALSE, tables |-> <<>>]
    ELSE LoadNext(d, files, SSTableLoad(FileOf(d, Head(files))))

\* NewDB on the directory as it is: Replay, NewWAL, then the tables.
Opens(replayed, loaded) ==
    IF replayed.panic
    THEN /\ UNCHANGED batch
         /\ last' = Last("Open", FALSE, <<>>, <<>>, 0, 0)
         /\ UNCHANGED <<disk, synced, clock, up, memTable, wal, levels>>
    ELSE IF loaded.panic
    THEN /\ disk' = IF walFilePath \in DOMAIN disk THEN disk
                    ELSE WriteFile(disk, walFilePath, <<>>)
         /\ UNCHANGED batch
         /\ last' = Last("Open", FALSE, <<>>, <<>>, 0, 0)
         /\ UNCHANGED <<synced, clock, up, memTable, wal, levels>>
    ELSE /\ disk' = IF walFilePath \in DOMAIN disk THEN disk
                    ELSE WriteFile(disk, walFilePath, <<>>)
         /\ up' = TRUE
         /\ memTable' = replayed.data
         /\ wal' = [open |-> TRUE, err |-> FALSE]
         /\ levels' = [NoLevels EXCEPT ![1] = loaded.tables]
         /\ UNCHANGED batch
         /\ last' = Last("Open", TRUE, <<>>, <<>>, 0, 0)
         /\ UNCHANGED <<synced, clock>>

Open ==
    /\ ~up
    /\ hist.restarts < MaxRestarts
    /\ \E replayed \in {Replay(FileOf(disk, walFilePath))},
          loaded \in {LoadAll(disk, GlobSst(disk))} : Opens(replayed, loaded)
    /\ hist' = [hist EXCEPT !.restarts = @ + 1, !.sess = EmptyMap]

\* The value of the next Put when values are told apart by their order.
FreshValue == <<hist.puts + 1>>

\* One session without I/O errors.
NextSession ==
    \/ hist.puts < MaxPuts /\ \E key \in Keys, value \in Values : PutOk(key, value)
    \/ Flush
    \/ FlushEmpty

SpecSession == Init /\ [][NextSession]_vars

\* Sessions that are closed and opened again; the last one only reads and
\* flushes.
NextRestart ==
    \/ /\ hist.puts < MaxPutsRestart
       /\ hist.restarts < MaxRestarts
       /\ \E key \in Keys : PutOk(key, FreshValue)
    \/ Flush
    \/ Close
    \/ Open

SpecRestart == Init /\ [][NextRestart]_vars

\* Sessions that end in a crash during a flush, and the restart.
NextCrash ==
    \/ /\ hist.puts < MaxPutsCrash
       /\ hist.restarts < MaxRestarts
       /\ \E key \in Keys : PutOk(key, FreshValue)
    \/ Flush
    \/ FlushCrash
    \/ Open

SpecCrash == Init /\ [][NextCrash]_vars

\* One session in which a call of a flush or of a compaction fails.
NextFlushFault ==
    \/ /\ hist.puts < MaxPutsFault
       /\ hist.walRecs < MaxWalRecordsFault
       /\ hist.faults < MaxFaults
       /\ \E key \in Keys, value \in {FreshValue, BigValue} : PutOk(key, value)
    \/ Flush
    \/ FlushFault

SpecFlushFault == Init /\ [][NextFlushFault]_vars

\* One session with rejected calls and failing writes to the WAL.
Next ==
    \/ \E value \in Values : PutEmptyKey(value)
    \/ hist.puts < MaxPutsPutFault /\ \E key \in Keys : PutOk(key, FreshValue)
    \/ \E key \in Keys, n \in {0, 9} : PutFault(key, FreshValue, n)
    \/ \E key \in Keys : PutBroken(key, FreshValue)
    \/ FlushEmpty
    \/ Flush

Spec == Init /\ [][Next]_vars

(***************************************************************************)
(* The claims.                                                             *)
(***************************************************************************)
\* What a last-writer-wins map m answers for key.
MapGet(m, key) == IF Has(m, key) THEN [ok |-> TRUE, value |-> m[key]] ELSE NotFound

\* C1: within one session on a directory that was empty, after any sequence
\* of successful Puts and Flushes (compactions included), Get(k) returns the
\* value of the last Put(k, .) of the session, and fails with NotFound
\* exactly when there was none.
C1_GetIsLastWriterWins ==
    (up /\ hist.restarts = 0) => \A k \in Keys : Get(k) = MapGet(hist.sess, k)

\* A compaction has happened and the key is read from a level below L0.
C1_Witness ==
    /\ up /\ hist.restarts = 0
    /\ last.op = "Flush" /\ last.ok
    /\ levels[1] = <<>> /\ levels[2] # <<>>
    /\ memTable = EmptyMap
    /\ Get(K1).ok /\ ~Get(K2).ok

\* C2: when the last call before Close was a successful Flush, the engine
\* opened again on the same directory answers every Get as the closed one did:
\* with the value of the most recent Put of the key.
C2_RestartKeepsGet ==
    (up /\ last.op = "Open" /\ last.ok /\ hist.cleanEnd)
        => \A k \in Keys : /\ Get(k) = DBGet(hist.preClose, k)
                           /\ Get(k) = MapGet(hist.acked, k)

\* The same for a directory that holds no table written by a compaction.
C2_RestartWithoutCompactedTable ==
    (up /\ last.op = "Open" /\ last.ok /\ hist.cleanEnd
        /\ \A name \in DOMAIN disk : name[2] = 0)
        => \A k \in Keys : /\ Get(k) = DBGet(hist.preClose, k)
                           /\ Get(k) = MapGet(hist.acked, k)

\* A restart after a flush, with a compacted table and a later flush output
\* in the directory.
C2_Witness ==
    /\ up /\ last.op = "Open" /\ last.ok /\ hist.cleanEnd
    /\ \E a, b \in DOMAIN disk : a[1] = "sst" /\ b[1] = "sst" /\ a[2] > 0 /\ b[2] = 0

\* C3: after Puts with no Flush since the WAL was created, Replay of wal.log
\* at the restart gives the last-writer-wins map of those Puts: the memtable
\* of the engine before it was closed.
C3_WalRoundTrip ==
    (up /\ last.op = "Open" /\ last.ok)
        => /\ memTable = hist.preClose.memTable
           /\ DOMAIN disk = {walFilePath} => memTable = hist.acked

\* The same read from the file: Replay of the WAL is the memtable, whenever
\* no write to the WAL has failed.
C3_ReplayIsMemTable ==
    (up /\ ~wal.err) => Replay(FileOf(disk, walFilePath)).data = memTable

\* A restart with two records of one key in the WAL.
C3_Witness ==
    /\ up /\ last.op = "Open" /\ last.ok
    /\ levels[1] = <<>> /\ DOMAIN disk = {walFilePath}
    /\ hist.puts >= 2
    /\ DOMAIN memTable = {K1}

\* What NewDB builds from the directory as it is.
Recovered ==
    [World EXCEPT !.memTable = Replay(FileOf(disk, walFilePath)).data,
                  !.levels = [NoLevels EXCEPT ![1] = LoadAll(disk, GlobSst(disk)).tables]]

C5_FlushPostcondition ==
    (up /\ last.op = "Flush" /\ last.ok /\ last.pre.memTable # EmptyMap)
        => /\ memTable = EmptyMap
           /\ FileOf(disk, walFilePath) = <<>>
           /\ wal = [open |-> TRUE, err |-> FALSE]
           /\ last.n >= 8
           /\ Len(last.steps[8].ok.levels[1]) = Len(last.pre.levels[1]) + 1
           /\ SubSeq(last.steps[8].ok.levels[1], 1, Len(last.pre.levels[1])) = last.pre.levels[1]
           /\ TableMap(last.steps[8].ok.disk,
                       last.steps[8].ok.levels[1][Len(last.pre.levels[1]) + 1])
                 = last.pre.memTable

\* A successful flush of two keys onto a level that held a table already.
C5_Witness ==
    /\ up /\ last.op = "Flush" /\ last.ok
    /\ DOMAIN last.pre.memTable = Keys
    /\ Len(levels[1]) = 2

\* C6: Put with an empty key returns an error and changes nothing: the WAL
\* file, the memtable and the levels are as before, and so is every Get.
C6_EmptyKeyRejected ==
    (last.op = "Put" /\ last.key = <<>>)
        => /\ ~last.ok
           /\ World = last.pre
           /\ \A k \in Keys \cup {<<>>} : Get(k) = DBGet(last.pre, k)

\* An empty key is put when the memtable and L0 hold data.
C6_Witness ==
    /\ last.op = "Put" /\ last.key = <<>>
    /\ memTable # EmptyMap /\ levels[1] # <<>>

\* C7: a Put whose WAL append fails returns an error and leaves the memtable
\* as it was; a Put that succeeds has appended its record to wal.log and then
\* set the key; and the memtable never holds a pair that the WAL file does
\* not hold.
C7_WalBeforeMemTable ==
    /\ (last.op = "Put" /\ ~last.ok) => memTable = last.pre.memTable
    /\ (last.op = "Put" /\ last.ok)
         => /\ FileOf(disk, walFilePath)
                 = FileOf(last.pre.disk, walFilePath) \o writeBinaryRecord(last.key, last.value)
            /\ memTable = MapPut(last.pre.memTable, last.key, last.value)
    /\ up => \A k \in DOMAIN memTable :
                /\ Has(Replay(FileOf(disk, walFilePath)).data, k)
                /\ Replay(FileOf(disk, walFilePath)).data[k] = memTable[k]

\* A write to the WAL failed after part of the record reached the file.
C7_Witness ==
    /\ last.op = "Put" /\ ~last.ok /\ last.key # <<>>
    /\ hist.torn /\ wal.err
    /\ memTable # EmptyMap
    /\ FileOf(disk, walFilePath) # FileOf(last.pre.disk, walFilePath)

(***************************************************************************)
(* compactLevel and Get on given levels.  The engine is started with the   *)
(* tables of one level and of the next one as a compaction finds them: L0  *)
(* holds MaxFiles0 tables, a deeper level holds one table, the next level  *)
(* holds one table or none.  (The tables are small; the byte caps that     *)
(* make a deeper level due for compaction are not reached here.)           *)
(***************************************************************************)
K3 == <<3>>

LevelKeys == {K1, K2, K3}

\* The contents the tables are drawn from.
LevelMaps ==
    { (K1 :> <<11>>), (K2 :> <<12>>), (K1 :> <<13>>) @@ (K3 :> <<13>>) }

TableFile(m) == SSTableWrite(SortedKVs(m)).bytes

\* The directory and the engine with tables of contents mapsL in level L and
\* mapsN in level L + 1, written at times 1, 2, ...
LevelDisk(L, mapsL, mapsN) ==
    [name \in {walFilePath} \cup { SstPath(L, i) : i \in 1..Len(mapsL) }
                            \cup { SstPath(L + 1, Len(mapsL) + j) : j \in 1..Len(mapsN) } |->
        IF name = walFilePath THEN <<>>
        ELSE IF name[3] <= Len(mapsL) THEN TableFile(mapsL[name[3]])
        ELSE TableFile(mapsN[name[3] - Len(mapsL)])] @@ <<>>

LevelTables(d, level, from, n) ==
    [i \in 1..n |-> LoadedTable(d, SstPath(level, from + i))] \o <<>>

LevelWorld(L, d, nL, nN) ==
    [disk |-> d, synced |-> DOMAIN d \ {walFilePath}, clock |-> nL + nN + 1,
     memTable |-> EmptyMap, wal |-> [open |-> TRUE, err |-> FALSE],
     levels |-> [NoLevels EXCEPT ![L + 1] = LevelTables(d, L, 0, nL),
                                 ![L + 2] = LevelTables(d, L + 1, nL, nN)]]

InitLevels ==
    \E L \in 0..(NumLevels - 2) :
      \E mapsL \in [1..(IF L = 0 THEN LevelPolicies[1].maxFiles ELSE 1) -> LevelMaps],
         mapsN \in {<<>>} \cup [1..1 -> LevelMaps] :
        \E w \in { LevelWorld(L, d, Len(mapsL), Len(mapsN)) :
                     d \in {LevelDisk(L, mapsL, mapsN)} } :
            /\ disk = w.disk
            /\ synced = w.synced
            /\ clock = w.clock
            /\ up = TRUE
            /\ memTable = w.memTable
            /\ wal = w.wal
            /\ levels = w.levels
            /\ hist = [acked |-> EmptyMap, sess |-> EmptyMap, puts |-> 0, walRecs |-> 0,
                       bigPuts |-> 0, restarts |-> 0, faults |-> 0, failed |-> 0,
                       torn |-> FALSE, cleanEnd |-> FALSE, preClose |-> NoWorld]
            /\ batch = NoBatch
            /\ last = [op |-> "Open", ok |-> TRUE, pre |-> NoWorld, key |-> <<>>,
                       value |-> <<>>, n |-> 0, failed |-> 0, steps |-> <<>>]

\* DB.compactLevel(level) without an I/O error, and the rest of the pass of
\* DB.maybeCompact that called it.
CompactEnds(steps) ==
    /\ SetWorld(steps[Len(steps)].ok)
    /\ UNCHANGED batch
    /\ last' = LastFlush("Compact", TRUE, steps, Len(steps), 0)
    /\ UNCHANGED <<up, hist>>

CompactLevel(level) ==
    /\ up /\ last.op = "Open"
    /\ levels[level + 1] # <<>>
    /\ \E steps \in {RunCalls(World, compactLevel(World, level), level, clock)} :
           CompactEnds(steps)

\* A Get, which changes nothing.
GetKey(key) ==
    /\ up /\ last.op # "Get"
    /\ UNCHANGED batch
    /\ last' = [Last("Get", Get(key).ok, key, Get(key).value, 0, 0) EXCEPT !.pre = last.pre]
    /\ UNCHANGED <<disk, synced, clock, up, memTable, wal, levels, hist>>

NextLevels ==
    \/ \E level \in 0..(NumLevels - 2) : CompactLevel(level)
    \/ \E key \in LevelKeys : GetKey(key)
    \/ last.op = "Open" /\ PutOk(K2, <<15>>)

SpecLevels == InitLevels /\ [][NextLevels]_vars

\* The level a recorded compaction started at.
CompactedLevel == last.steps[1].level

\* The keys of the tables of a level.
LevelKeySet(d, tables) == UNION { DOMAIN TableMap(d, tables[i]) : i \in 1..Len(tables) }

\* C8: after a successful compactLevel(L), L in 0..5, levels[L] is empty,
\* levels[L+1] holds exactly one table, and the keys of that table are exactly
\* the keys of all tables that were in L and in L+1 before the call.
C8_CompactionMovesLevel ==
    last.op = "Compact" =>
        /\ levels[CompactedLevel + 1] = <<>>
        /\ Len(levels[CompactedLevel + 2]) = 1
        /\ LevelKeySet(disk, levels[CompactedLevel + 2])
             = LevelKeySet(last.pre.disk, last.pre.levels[CompactedLevel + 1])
               \cup LevelKeySet(last.pre.disk, last.pre.levels[CompactedLevel + 2])

\* A compaction of the deepest level that can be compacted, whose next level
\* held a key the level itself did not hold.
C8_Witness ==
    /\ last.op = "Compact"
    /\ CompactedLevel = NumLevels - 2
    /\ LevelKeySet(last.pre.disk, last.pre.levels[CompactedLevel + 2])
         \ LevelKeySet(last.pre.disk, last.pre.levels[CompactedLevel + 1]) # {}
    /\ Cardinality(LevelKeySet(disk, levels[CompactedLevel + 2])) = 3

\* The tables of a list that hold a key, by position.
Holders(d, tables, key) == { i \in 1..Len(tables) : Has(TableMap(d, tables[i]), key) }

Max(S) == CHOOSE x \in S : \A y \in S : y <= x

Min(S) == CHOOSE x \in S : \A y \in S : x <= y

\* The value a compaction of tables (level L) over next (level L+1) is to keep
\* for a key that one of them holds.
NewestValue(d, tables, next, key) ==
    IF Holders(d, tables, key) # {}
    THEN TableMap(d, tables[Max(Holders(d, tables, key))])[key]
    ELSE TableMap(d, next[Min(Holders(d, next, key))])[key]

\* C9: a compaction keeps the newest value: a key of any table of L carries the
\* value of the last table of L that holds it, a key held only in L+1 carries
\* its L+1 value; Get answers every key the same before and after.
C9_CompactionKeepsNewest ==
    last.op = "Compact" =>
        \A key \in LevelKeys :
            /\ Has(TableMap(disk, levels[CompactedLevel + 2][1]), key) =>
                 TableMap(disk, levels[CompactedLevel + 2][1])[key]
                   = NewestValue(last.pre.disk, last.pre.levels[CompactedLevel + 1],
                                 last.pre.levels[CompactedLevel + 2], key)
            /\ Get(key) = DBGet(last.pre, key)

\* A compaction of L0 whose tables held two keys, over a table of L1 that held
\* one of them with another value and a key of its own.
C9_Witness ==
    /\ last.op = "Compact"
    /\ CompactedLevel = 0
    /\ \E i, j \in 1..Len(last.pre.levels[1]) :
           /\ i < j
           /\ TableMap(last.pre.disk, last.pre.levels[1][i]) = (K1 :> <<11>>)
           /\ TableMap(last.pre.disk, last.pre.levels[1][j]) = (K2 :> <<12>>)
    /\ TableMap(last.pre.disk, last.pre.levels[1][Len(last.pre.levels[1])]) = (K1 :> <<11>>)
    /\ Len(last.pre.levels[2]) = 1
    /\ TableMap(last.pre.disk, last.pre.levels[2][1]) = (K1 :> <<13>>) @@ (K3 :> <<13>>)
    /\ Get(K1) = [ok |-> TRUE, value |-> <<11>>]
    /\ Get(K3) = [ok |-> TRUE, value |-> <<13>>]

\* The levels below L0 that hold a table.
DeeperLevels == { level \in 1..(NumLevels - 1) : levels[level + 1] # <<>> }

\* C10: right after a Flush whose compaction pass succeeded no level L in 0..5
\* needs compaction, so L0 holds fewer than 4 tables; the flush that brought
\* L0 to 4 tables leaves L0 empty and one table in a deeper level that holds
\* every key of the merged tables, each of them answered by Get.
C10_NoLevelNeedsCompaction ==
    (up /\ last.op = "Flush" /\ last.ok /\ last.failed = 0 /\ last.pre.memTable # EmptyMap)
        => /\ \A level \in 0..(NumLevels - 2) : ~needsCompaction(World, level)
           /\ Len(levels[1]) < LevelPolicies[1].maxFiles
           /\ Len(last.steps[8].ok.levels[1]) = LevelPolicies[1].maxFiles
                => /\ levels[1] = <<>>
                   /\ \E level \in DeeperLevels :
                        /\ Len(levels[level + 1]) = 1
                        /\ LevelKeySet(last.steps[8].ok.disk, last.steps[8].ok.levels[1])
                             \subseteq DOMAIN TableMap(disk, levels[level + 1][1])
                   /\ \A key \in LevelKeySet(last.steps[8].ok.disk, last.steps[8].ok.levels[1]) :
                        Get(key) = [ok |-> TRUE, value |-> MergedKVs(last.steps[8].ok, 0)[key]]

\* The fourth flush: L0 came to 4 tables with two keys between them, and the
\* pass left them in one table of L1.
C10_Witness ==
    /\ up /\ last.op = "Flush" /\ last.ok /\ last.failed = 0
    /\ last.pre.memTable # EmptyMap
    /\ Len(last.steps[8].ok.levels[1]) = LevelPolicies[1].maxFiles
    /\ LevelKeySet(last.steps[8].ok.disk, last.steps[8].ok.levels[1]) = Keys
    /\ levels[1] = <<>>
    /\ Len(levels[2]) = 1

(***************************************************************************)
(* Replay on a damaged WAL.  The engine is down and wal.log holds records  *)
(* of which some were damaged after they were written: a payload byte      *)
(* changed (the CRC no longer matches), and at the end of the file a       *)
(* record cut short or a block of zero bytes that was never written over.  *)
(***************************************************************************)
MaxWalItems == 2

WalPairs == { <<K1, <<1>>>>, <<K2, <<2>>>>, <<K1, <<3>>>> }

\* A record of the file: a pair and whether its payload was damaged.
WalItems == [kv : WalPairs, damaged : BOOLEAN]

WalTails == {"none", "torn", "zero"}

\* The record with its last payload byte changed.
Damage(bytes) ==
    SubSeq(bytes, 1, Len(bytes) - 1) \o <<(bytes[Len(bytes)] + 1) % 256>>

ItemBytes(item) ==
    IF item.damaged THEN Damage(writeBinaryRecord(item.kv[1], item.kv[2]))
    ELSE writeBinaryRecord(item.kv[1], item.kv[2])

TailBytes(tail) ==
    CASE tail = "none" -> <<>>
      [] tail = "torn" -> Partial(writeBinaryRecord(K2, <<4>>))
      [] tail = "zero" -> ZeroRun(8)

RECURSIVE WalBytes(_)
WalBytes(items) ==
    IF items = <<>> THEN <<>> ELSE ItemBytes(Head(items)) \o WalBytes(Tail(items))

\* The last-writer-wins mapping of the records that were not damaged.
RECURSIVE IntactData(_, _)
IntactData(items, replayData) ==
    IF items = <<>> THEN replayData
    ELSE IntactData(Tail(items),
                    IF Head(items).damaged THEN replayData
                    ELSE MapPut(replayData, Head(items).kv[1], Head(items).kv[2]))

InitReplay ==
    \E n \in 0..MaxWalItems : \E items \in [1..n -> WalItems], tail \in WalTails :
        /\ disk = (walFilePath :> (WalBytes(items) \o TailBytes(tail)))
        /\ synced = {}
        /\ clock = 1
        /\ up = FALSE
        /\ memTable = EmptyMap
        /\ wal = NoWal
        /\ levels = NoLevels
        /\ hist = [acked |-> IntactData(items, EmptyMap), sess |-> EmptyMap, puts |-> 0,
                   walRecs |-> n, bigPuts |-> 0, restarts |-> 0, faults |-> 0, failed |-> 0,
                   torn |-> tail # "none", cleanEnd |-> FALSE, preClose |-> NoWorld]
        /\ batch = NoBatch
        /\ last = [op |-> "Close", ok |-> TRUE, pre |-> NoWorld, key |-> <<>>, value |-> <<>>,
                   n |-> 0, failed |-> 0, steps |-> <<>>]

NextReplay == Open

SpecReplay == InitReplay /\ [][NextReplay]_vars

\* C11: Replay never fails because of damaged records: Open succeeds, and the
\* memtable is the last-writer-wins mapping of exactly the complete records
\* whose CRC matches; a record with a CRC mismatch is skipped and the records
\* after it are applied, a record cut short at the end of the file ends the
\* replay with the records before it kept.
C11_ReplayToleratesDamage ==
    (last.op = "Open" /\ hist.restarts = 1)
        => /\ last.ok /\ up
           /\ memTable = hist.acked

\* The same for a file whose damage is a changed payload byte or a record cut
\* short, with no block of zero bytes at its end.
C11_ReplaySkipsBadCrcAndTornTail ==
    (last.op = "Open" /\ hist.restarts = 1
       /\ Take(Drop(FileOf(disk, walFilePath), ByteLen(FileOf(disk, walFilePath)) - 8), 8)
            # ZeroRun(8))
        => /\ last.ok /\ up
           /\ memTable = hist.acked

\* An Open that skipped a damaged record, applied the record after it and
\* stopped at a record cut short.
C11_Witness ==
    /\ last.op = "Open" /\ hist.restarts = 1 /\ last.ok
    /\ hist.walRecs = 2 /\ hist.torn
    /\ memTable = (K2 :> <<2>>)
    /\ ByteLen(FileOf(disk, walFilePath)) > 2 * ByteLen(writeBinaryRecord(K1, <<1>>))

(***************************************************************************)
(* NewDB on a directory that holds table files of any kind.  The engine is *)
(* down; the directory holds an empty wal.log and up to three *.sst files, *)
(* named as a flush or as a compaction names them, each a table as Write   *)
(* wrote it or a file that is not one.                                     *)
(***************************************************************************)
OpenNames == { SstPath(0, 1), SstPath(1, 2), SstPath(0, 3) }

\* Files that are not tables: too short for a footer; a footer of two
\* negative offsets; the first half of a table; a footer that points at a
\* Bloom filter whose length is negative.
BadFiles ==
    { <<1, 2, 3, 4, 5>>,
      <<255, 255, 255, 255, 255, 255, 255, 255, 255, 255, 255, 255, 255, 255, 255, 255>>,
      Partial(TableFile((K1 :> <<11>>))),
      <<255, 255, 255, 255>> \o PutInt64(0) \o PutInt64(0) }

OpenFiles == { TableFile(m) : m \in {(K1 :> <<11>>), (K2 :> <<12>>)} } \cup BadFiles

InitOpen ==
    \E names \in SUBSET OpenNames : \E files \in [names -> OpenFiles] :
        /\ disk = (walFilePath :> <<>>) @@ files
        /\ synced = names
        /\ clock = 4
        /\ up = FALSE
        /\ memTable = EmptyMap
        /\ wal = NoWal
        /\ levels = NoLevels
        /\ hist = [acked |-> EmptyMap, sess |-> EmptyMap, puts |-> 0, walRecs |-> 0,
                   bigPuts |-> 0, restarts |-> 0, faults |-> 0, failed |-> 0,
                   torn |-> FALSE, cleanEnd |-> FALSE, preClose |-> NoWorld]
        /\ batch = NoBatch
        /\ last = [op |-> "Close", ok |-> TRUE, pre |-> NoWorld, key |-> <<>>, value |-> <<>>,
                   n |-> 0, failed |-> 0, steps |-> <<>>]

NextOpen == Open

SpecOpen == InitOpen /\ [][NextOpen]_vars

\* The *.sst files of the directory that Load accepts.
Loadable == { path \in DOMAIN disk \ {walFilePath} : SSTableLoad(FileOf(disk, path)).ok }

\* What C12 says of the levels after NewDB.
LoadableInL0 ==
    /\ Len(levels[1]) = Cardinality(Loadable)
    /\ \A path \in Loadable :
         \E i \in 1..Len(levels[1]) : levels[1][i] = LoadedTable(disk, path)
    /\ \A level \in 1..(NumLevels - 1) : levels[level + 1] = <<>>

\* C12: Open tolerates unloadable tables: an *.sst file whose Load fails is
\* skipped and Open succeeds; every file that loads is in L0, whatever the
\* prefix of its name, and the levels 1..6 are empty right after Open.
C12_OpenSkipsUnloadable ==
    (last.op = "Open" /\ hist.restarts = 1) => (last.ok /\ up /\ LoadableInL0)

\* The same when Load returns an error for every file it does not accept.
C12_OpenSkipsLoadErrors ==
    (last.op = "Open" /\ hist.restarts = 1
       /\ \A path \in DOMAIN disk \ {walFilePath} : ~SSTableLoad(FileOf(disk, path)).panic)
        => (last.ok /\ up /\ LoadableInL0)

\* An Open that skipped a file and put a table named by a compaction in L0.
C12_Witness ==
    /\ last.op = "Open" /\ hist.restarts = 1 /\ last.ok /\ up
    /\ DOMAIN disk = {walFilePath} \cup OpenNames
    /\ Loadable = {SstPath(1, 2), SstPath(0, 3)}
    /\ Len(levels[1]) = 2

(***************************************************************************)
(* DB.Close when closing a resource may fail.  SSTable.Close is not among  *)
(* the sources; it is taken as the specification describes it: it releases *)
(* the table and returns an error or nil.                                  *)
(***************************************************************************)
MaxCloseErrors == 2

RECURSIVE LevelPaths(_, _)
\* The tables of the levels from levelNum on, in the order of the two loops.
LevelPaths(w, levelNum) ==
    IF levelNum >= NumLevels THEN <<>>
    ELSE [i \in 1..Len(w.levels[levelNum + 1]) |-> w.levels[levelNum + 1][i].path]
         \o LevelPaths(w, levelNum + 1)

\* What DB.Close closes, in order: every table, then the WAL.
CloseCalls(w) == LevelPaths(w, 0) \o <<walFilePath>>

RECURSIVE CloseFrom(_, _, _, _)
\* A loop that gives up at the first error.
CloseFromUntilError(calls, failing, firstErr, attempted) ==
    IF calls = <<>> \/ firstErr # 0 THEN [attempted |-> attempted, firstErr |-> firstErr]
    ELSE CloseFrom(Tail(calls), failing,
                   IF Head(calls) \in failing /\ firstErr = 0 THEN Len(attempted) + 1 ELSE firstErr,
                   Append(attempted, Head(calls)))

\* The loops of DB.Close and its wal.Close: each call is made, the first error
\* is kept.  failing: the resources whose close returns an error; firstErr:
\* the position of the call whose error is returned (0: nil).
CloseFrom(calls, failing, firstErr, attempted) ==
    IF calls = <<>> THEN [attempted |-> attempted, firstErr |-> firstErr]
    ELSE CloseFrom(Tail(calls), failing,
                   IF Head(calls) \in failing /\ firstErr = 0 THEN Len(attempted) + 1 ELSE firstErr,
                   Append(attempted, Head(calls)))

DBClose(w, failing) == CloseFrom(CloseCalls(w), failing, 0, <<>>)

CloseEnds(failing, r) ==
    /\ Down(World)
    /\ UNCHANGED batch
    /\ last' = [LastFlush("Close", r.firstErr = 0, r.attempted, Len(r.attempted), r.firstErr)
                  EXCEPT !.key = failing]
    /\ UNCHANGED hist

\* DB.Close in which the closes of the resources in failing return an error.
CloseFault(failing) ==
    /\ up
    /\ Cardinality(failing) <= MaxCloseErrors
    /\ \E r \in {DBClose(World, failing)} : CloseEnds(failing, r)

NextClose == \E failing \in SUBSET {CloseCalls(World)[i] : i \in 1..Len(CloseCalls(World))} :
                 CloseFault(failing)

SpecClose == InitLevels /\ [][NextClose]_vars

\* The positions of the calls of the last Close that returned an error.
FailedCloses == { i \in 1..Len(last.steps) : last.steps[i] \in last.key }

\* C13: Close closes every SSTable of every level and then the WAL, each of
\* them even when an earlier close failed, and returns the first error met
\* (nil when none failed).
C13_CloseAttemptsAll ==
    last.op = "Close" =>
        /\ last.steps = CloseCalls(last.pre)
        /\ last.steps[Len(last.steps)] = walFilePath
        /\ \A level \in 0..(NumLevels - 1) : \A i \in 1..Len(last.pre.levels[level + 1]) :
             \E j \in 1..(Len(last.steps) - 1) : last.steps[j] = last.pre.levels[level + 1][i].path
        /\ last.ok = (FailedCloses = {})
        /\ FailedCloses # {} => last.failed = Min(FailedCloses)

\* A Close in which the second table and the WAL failed to close: five
\* tables and the WAL were closed and the error of the second table returned.
C13_Witness ==
    /\ last.op = "Close" /\ ~last.ok
    /\ Len(last.steps) = 6
    /\ FailedCloses = {2, 6}
    /\ last.failed = 2

(***************************************************************************)
(* GetBatch and GetBatchParallel.  GetBatch runs its loop in order;        *)
(* GetBatchParallel starts one goroutine per key, each of which calls Get  *)
(* and then stores into its own element of results, and returns after      *)
(* wg.Wait.  No Put, Flush or Close is made while a batch is in progress.  *)
(***************************************************************************)
MaxBatch == 2

MaxPutsBatch == 2

BatchKeys == {K1, K2, K3}

\* The zero GetResult of make([]GetResult, len(keys)).
ZeroResult == [ok |-> TRUE, value |-> <<>>]

GetBatchStart(keys, parallel) ==
    /\ up /\ ~batch.active
    /\ batch' = [active |-> TRUE, parallel |-> parallel, keys |-> keys,
                 results |-> [i \in 1..Len(keys) |-> ZeroResult] \o <<>>,
                 got |-> [i \in 1..Len(keys) |-> ZeroResult] \o <<>>,
                 pc |-> [i \in 1..Len(keys) |-> "start"] \o <<>>]
    /\ last' = Last("GetBatchStart", TRUE, keys, <<>>, 0, 0)
    /\ UNCHANGED <<disk, synced, clock, up, memTable, wal, levels, hist>>

\* Worker i calls db.Get; in GetBatch the iterations follow one another.
WorkerGet(i) ==
    /\ batch.active /\ i \in 1..Len(batch.keys)
    /\ batch.pc[i] = "start"
    /\ batch.parallel \/ \A j \in 1..(i - 1) : batch.pc[j] = "done"
    /\ batch' = [batch EXCEPT !.got[i] = Get(batch.keys[i]), !.pc[i] = "got"]
    /\ UNCHANGED <<disk, synced, clock, up, memTable, wal, levels, hist, last>>

\* Worker i stores results[index].
WorkerStore(i) ==
    /\ batch.active /\ i \in 1..Len(batch.keys)
    /\ batch.pc[i] = "got"
    /\ batch' = [batch EXCEPT !.results[i] = batch.got[i], !.pc[i] = "done"]
    /\ UNCHANGED <<disk, synced, clock, up, memTable, wal, levels, hist, last>>

\* A return that does not wait for the workers.
BatchDoneAtOnce == TRUE

\* wg.Wait returns (the loop of GetBatch ends).
BatchDone == \A i \in 1..Len(batch.keys) : batch.pc[i] = "done"

GetBatchReturn ==
    /\ batch.active /\ BatchDone
    /\ batch' = NoBatch
    /\ last' = [Last(IF batch.parallel THEN "GetBatchParallel" ELSE "GetBatch", TRUE,
                     batch.keys, batch.results, Len(batch.results), 0)
                  EXCEPT !.pre = last.pre]
    /\ UNCHANGED <<disk, synced, clock, up, memTable, wal, levels, hist>>

NextBatch ==
    \/ /\ ~batch.active /\ hist.puts < MaxPutsBatch
       /\ \E key \in Keys : PutOk(key, FreshValue)
    \/ ~batch.active /\ Flush
    \/ \E n \in 0..MaxBatch : \E keys \in [1..n -> BatchKeys], parallel \in BOOLEAN :
           GetBatchStart(keys, parallel)
    \/ \E i \in 1..MaxBatch : WorkerGet(i)
    \/ \E i \in 1..MaxBatch : WorkerStore(i)
    \/ GetBatchReturn

SpecBatch == Init /\ [][NextBatch]_vars

\* C14: on a quiescent engine GetBatch(keys) and GetBatchParallel(keys) return
\* len(keys) results, the i-th being the result of Get(keys[i]), whatever the
\* interleaving of the workers; no worker changes the engine, and the call
\* returns only after every worker has finished.
C14_BatchIsGetPerKey ==
    /\ batch.active => World = last.pre
    /\ last.op \in {"GetBatch", "GetBatchParallel"} =>
         /\ World = last.pre
         /\ Len(last.value) = Len(last.key)
         /\ \A i \in 1..Len(last.key) : last.value[i] = Get(last.key[i])

\* A GetBatchParallel of a key held by a table and of a key never written.
C14_Witness ==
    /\ last.op = "GetBatchParallel"
    /\ last.key = <<K1, K3>>
    /\ levels[1] # <<>>
    /\ last.value[1].ok /\ last.value[1].value # <<>>
    /\ last.value[2] = NotFound

(***************************************************************************)
(* SSTable.Write, Load and BinarySearch on given pairs.  The engine holds  *)
(* one table in L0, written from a map over TableKeys and loaded.  With    *)
(* the single key <<98>> the filter has m = 10, k = 7 and answers true for *)
(* the key <<1>>, which was not added.                                     *)
(***************************************************************************)
TableKeys == { <<1>>, <<1, 2>>, <<2>>, <<98>> }

TableValues == { <<>>, <<8, 9>> }

SearchKeys == TableKeys \cup { <<3>> }

InitTable ==
    \E S \in SUBSET TableKeys \ {{}} : \E m \in [S -> TableValues] :
      \E w \in { LevelWorld(0, d, 1, 0) :
                   d \in {(walFilePath :> <<>>) @@ (SstPath(0, 1) :> TableFile(m))} } :
        /\ disk = w.disk
        /\ synced = w.synced
        /\ clock = w.clock
        /\ up = TRUE
        /\ memTable = w.memTable
        /\ wal = w.wal
        /\ levels = w.levels
        /\ hist = [acked |-> m, sess |-> EmptyMap, puts |-> 0, walRecs |-> 0,
                   bigPuts |-> 0, restarts |-> 0, faults |-> 0, failed |-> 0,
                   torn |-> FALSE, cleanEnd |-> FALSE, preClose |-> NoWorld]
        /\ batch = NoBatch
        /\ last = [op |-> "Load", ok |-> TRUE, pre |-> NoWorld, key |-> <<>>, value |-> <<>>,
                   n |-> 0, failed |-> 0, steps |-> <<>>]

SearchEnds(key, r) ==
    /\ last' = Last("BinarySearch", r.ok, key, r.value, 0, 0)
    /\ UNCHANGED <<disk, synced, clock, up, memTable, wal, levels, batch, hist>>

\* sst.BinarySearch(key) on the table of L0.
TableSearch(key) ==
    /\ up /\ levels[1] # <<>>
    /\ \E r \in {BinarySearch(levels[1][1], FileOf(disk, levels[1][1].path), key)} :
           SearchEnds(key, r)

NextTable == \E key \in SearchKeys : TableSearch(key)

SpecTable == InitTable /\ [][NextTable]_vars

\* C15: for a table written by Write from pairs with strictly ascending keys
\* and then loaded, BinarySearch(k) returns v for every written pair (k, v):
\* the filter answers true for every added key and every index key leads to
\* the data entry of that key; BinarySearch reports a miss for every key that
\* was not written, also when the filter answers true for it.
C15_SearchFindsWhatWasWritten ==
    /\ \A key \in DOMAIN hist.acked : MightContains(levels[1][1].filter, key)
    /\ \A i \in 1..Len(levels[1][1].index) :
         readKVFromMmap(FileOf(disk, levels[1][1].path), levels[1][1].index[i].offset).key
           = levels[1][1].index[i].key
    /\ last.op = "BinarySearch" =>
         IF Has(hist.acked, last.key)
         THEN last.ok /\ last.value = hist.acked[last.key]
         ELSE ~last.ok

\* A search for a key that was not written and for which the filter answers
\* true, in a table in which the written key is found.
C15_Witness ==
    /\ last.op = "BinarySearch" /\ ~last.ok
    /\ ~Has(hist.acked, last.key)
    /\ MightContains(levels[1][1].filter, last.key)
    /\ \E key \in DOMAIN hist.acked :
         BinarySearch(levels[1][1], FileOf(disk, levels[1][1].path), key)
           = [ok |-> TRUE, value |-> hist.acked[key]]

(***************************************************************************)
(* SSTable.Load on files with a damaged footer.  The engine is down; the   *)
(* directory holds wal.log and one file: a table as Write wrote it whose   *)
(* footer was replaced, or the first bytes of one.  NewDB loads the file.  *)
(***************************************************************************)
FooterBase == TableFile((K1 :> <<11>>) @@ (K2 :> <<12>>))

\* An int64 of the footer, negative ones included (two's complement).
PutInt64Signed(n) ==
    PutUint32(n) \o (IF n < 0 THEN <<255, 255, 255, 255>> ELSE <<0, 0, 0, 0>>)

\* The offsets Write recorded in the footer of FooterBase.
BaseIndexOffset == Int64(Take(Drop(FooterBase, ByteLen(FooterBase) - 16), 8))

BaseFilterOffset == Int64(Drop(FooterBase, ByteLen(FooterBase) - 8))

FooterOffsets ==
    { -1, 0, BaseFilterOffset, BaseIndexOffset, ByteLen(FooterBase) - 16,
      ByteLen(FooterBase) - 15, ByteLen(FooterBase), ByteLen(FooterBase) + 5 }

WithFooter(indexOffset, filterOffset) ==
    Take(FooterBase, ByteLen(FooterBase) - 16)
      \o PutInt64Signed(indexOffset) \o PutInt64Signed(filterOffset)

FooterFiles ==
    { WithFooter(io, fo) : io \in FooterOffsets, fo \in FooterOffsets }
      \cup { Take(FooterBase, n) : n \in {0, 8, 15} }

InitFooter ==
    \E file \in FooterFiles :
        /\ disk = (walFilePath :> <<>>) @@ (SstPath(0, 1) :> file)
        /\ synced = {SstPath(0, 1)}
        /\ clock = 2
        /\ up = FALSE
        /\ memTable = EmptyMap
        /\ wal = NoWal
        /\ levels = NoLevels
        /\ hist = [acked |-> EmptyMap, sess |-> EmptyMap, puts |-> 0, walRecs |-> 0,
                   bigPuts |-> 0, restarts |-> 0, faults |-> 0, failed |-> 0,
                   torn |-> FALSE, cleanEnd |-> FALSE, preClose |-> NoWorld]
        /\ batch = NoBatch
        /\ last = [op |-> "Close", ok |-> TRUE, pre |-> NoWorld, key |-> <<>>, value |-> <<>>,
                   n |-> 0, failed |-> 0, steps |-> <<>>]

NextFooter == Open

SpecFooter == InitFooter /\ [][NextFooter]_vars

\* The file NewDB was given, its size and the offsets of its footer.
GivenFile == FileOf(disk, SstPath(0, 1))

GivenSize == ByteLen(GivenFile)

GivenIndexOffset == Int64(Take(Drop(GivenFile, GivenSize - 16), 8))

GivenFilterOffset == Int64(Drop(GivenFile, GivenSize - 8))

\* Load returned an error: NewDB came up without the table in any level.
LoadReturnedError == last.ok /\ up /\ \A level \in 0..(NumLevels - 1) : levels[level + 1] = <<>>

\* C16: Load fails with an error, leaving the table out of every level,
\* whenever the file is shorter than 16 bytes or its footer has a negative
\* index or filter offset, an index or filter offset greater than the file
\* size less 16, or a filter offset not below the index offset.
C16_LoadRejectsBadFooter ==
    (last.op = "Open" /\ hist.restarts = 1
       /\ \/ GivenSize < 16
          \/ GivenIndexOffset < 0 \/ GivenFilterOffset < 0
          \/ GivenIndexOffset > GivenSize - 16 \/ GivenFilterOffset > GivenSize - 16
          \/ GivenFilterOffset >= GivenIndexOffset)
        => LoadReturnedError

\* What Load does check: the size of the file, and by its seeks that the
\* filter offset is not negative and, once the filter is read, that the
\* index offset is not negative.
C16_LoadRejectsShortFileAndNegativeSeek ==
    (last.op = "Open" /\ hist.restarts = 1
       /\ \/ GivenSize < 16
          \/ GivenFilterOffset < 0
          \/ GivenIndexOffset < 0 /\ GivenFilterOffset = BaseFilterOffset)
        => LoadReturnedError

\* An Open that was given a file whose footer has a negative filter offset.
C16_Witness ==
    /\ last.op = "Open" /\ hist.restarts = 1
    /\ GivenSize = ByteLen(FooterBase)
    /\ GivenFilterOffset < 0 /\ GivenIndexOffset = BaseIndexOffset
    /\ LoadReturnedError

\* Flush with nothing to flush, on the levels of InitLevels.
NextIdle == FlushEmpty

SpecIdle == InitLevels /\ [][NextIdle]_vars

\* C17: Flush on an empty memtable returns success and changes nothing: no
\* table file is created, the WAL is neither closed, removed nor recreated,
\* the levels are unchanged and no compaction is considered.
C17_EmptyFlushChangesNothing ==
    (last.op = "Flush" /\ last.pre.memTable = EmptyMap)
        => /\ last.ok
           /\ last.steps = <<>>
           /\ World = last.pre
           /\ wal = [open |-> TRUE, err |-> FALSE]

\* A Flush on an empty memtable while L0 holds as many tables as its policy
\* allows.
C17_Witness ==
    /\ last.op = "Flush" /\ last.ok
    /\ memTable = EmptyMap
    /\ needsCompaction(World, 0)
    /\ Len(levels[1]) = LevelPolicies[1].maxFiles

\* The call of the last Flush that failed was one of a compaction.
CompactionFailed ==
    /\ up /\ last.op = "Flush" /\ last.failed > 0
    /\ last.steps[last.failed].level >= 0

\* The table the last Flush wrote is in L0.
FlushedTableInL0 ==
    \E i \in 1..Len(levels[1]) :
        /\ levels[1][i].path = SstPath(0, last.pre.clock)
        /\ TableMap(disk, levels[1][i]) = last.pre.memTable

FlushedKeysReadable ==
    \A key \in DOMAIN last.pre.memTable :
        Get(key) = [ok |-> TRUE, value |-> last.pre.memTable[key]]

MaxBatches == 2

MaxPairs == 2

BatchPairs == { <<key, value>> : key \in Keys \cup {<<>>}, value \in {<<7>>, <<8>>} }

RECURSIVE AppendBatch(_, _)
\* The WAL file after WAL.AppendBatch(kvs).
AppendBatch(walFile, kvs) ==
    IF kvs = <<>> THEN walFile
    ELSE AppendBatch(walFile \o writeBinaryRecord(Head(kvs)[1], Head(kvs)[2]), Tail(kvs))

RECURSIVE PutAllPairs(_, _)
\* The second loop of PutBatch: db.memTable[kv[0]] = kv[1] in list order.
PutAllPairs(m, kvs) ==
    IF kvs = <<>> THEN m ELSE PutAllPairs(MapPut(m, Head(kvs)[1], Head(kvs)[2]), Tail(kvs))

\* DB.PutBatch(kvs) in world w when no I/O error occurs: the outcome and the
\* world it leaves.
PutBatchOn(w, kvs) ==
    IF kvs = <<>> THEN [ok |-> TRUE, world |-> w]
    ELSE IF \E i \in 1..Len(kvs) : kvs[i][1] = <<>> THEN [ok |-> FALSE, world |-> w]
    ELSE [ok |-> TRUE,
          world |-> [w EXCEPT !.disk = WriteFile(@, walFilePath,
                                                 AppendBatch(FileOf(@, walFilePath), kvs)),
                              !.memTable = PutAllPairs(@, kvs)]]

\* DB.Put(key, value) in world w when no I/O error occurs.
PutOn(w, key, value) ==
    IF key = <<>> THEN [ok |-> FALSE, world |-> w]
    ELSE [ok |-> TRUE,
          world |-> [w EXCEPT !.disk = WriteFile(@, walFilePath,
                                                 FileOf(@, walFilePath)
                                                   \o writeBinaryRecord(key, value)),
                              !.memTable = MapPut(@, key, value)]]

RECURSIVE PutEach(_, _)
\* Put on each pair in list order, stopping at the first error.
PutEachNext(r, kvs) == IF r.ok THEN PutEach(r.world, Tail(kvs)) ELSE r

PutEach(w, kvs) ==
    IF kvs = <<>> THEN [ok |-> TRUE, world |-> w]
    ELSE PutEachNext(PutOn(w, Head(kvs)[1], Head(kvs)[2]), kvs)

PutBatchEnds(kvs, r) ==
    /\ SetWorld(r.world)
    /\ hist' = [hist EXCEPT !.puts = @ + 1,
                            !.acked = IF r.ok THEN PutAllPairs(@, kvs) ELSE @,
                            !.sess = IF r.ok THEN PutAllPairs(@, kvs) ELSE @]
    /\ last' = Last("PutBatch", r.ok, kvs, <<>>, Len(kvs), 0)
    /\ UNCHANGED <<up, batch>>

PutBatch(kvs) ==
    /\ up /\ wal.open /\ ~wal.err
    /\ hist.puts < MaxBatches
    /\ \E r \in {PutBatchOn(World, kvs)} : PutBatchEnds(kvs, r)

NextPutBatch == \E n \in 0..MaxPairs : \E kvs \in [1..n -> BatchPairs] : PutBatch(kvs)

SpecPutBatch == Init /\ [][NextPutBatch]_vars

\* C19: PutBatch(pairs) has sequential semantics: its effect on the memtable
\* and on the WAL and its outcome are those of Put on each pair in list
\* order, stopping at the first error; a later pair of the same key
\* overwrites an earlier one, and an empty batch is a successful no-op.
C19_PutBatchIsPutEach ==
    last.op = "PutBatch" =>
        /\ last.ok = PutEach(last.pre, last.key).ok
        /\ World = PutEach(last.pre, last.key).world

\* The same for batches without an empty key, and for a batch with an empty
\* key that it is refused whole.
C19_PutBatchIsPutEachOrNothing ==
    last.op = "PutBatch" =>
        IF \E i \in 1..Len(last.key) : last.key[i][1] = <<>>
        THEN ~last.ok /\ World = last.pre
        ELSE /\ last.ok = PutEach(last.pre, last.key).ok
             /\ World = PutEach(last.pre, last.key).world

\* A batch of two pairs of one key: the later pair is the one Get returns.
C19_Witness ==
    /\ last.op = "PutBatch" /\ last.ok
    /\ last.key = << <<K1, <<7>>>>, <<K1, <<8>>>> >>
    /\ Get(K1) = [ok |-> TRUE, value |-> <<8>>]
    /\ Has(last.pre.memTable, K2)

\* The first and the last key of a table.
InRange(d, sst, key) ==
    /\ \E k \in DOMAIN TableMap(d, sst) : StrLeq(k, key)
    /\ \E k \in DOMAIN TableMap(d, sst) : StrLeq(key, k)

\* The tables of a level below L0 whose range of keys holds the key.
Ranging(d, tables, key) == { i \in 1..Len(tables) : InRange(d, tables[i], key) }

\* The level below L0 answers the key: the first table whose range holds the
\* key holds the key.
LevelHits(level, key) ==
    /\ Ranging(disk, levels[level + 1], key) # {}
    /\ Has(TableMap(disk, levels[level + 1][Min(Ranging(disk, levels[level + 1], key))]), key)

LevelValue(level, key) ==
    TableMap(disk, levels[level + 1][Min(Ranging(disk, levels[level + 1], key))])[key]

\* The answer the search order of C20 gives.
FirstHit(key) ==
    IF Has(memTable, key) THEN [ok |-> TRUE, value |-> memTable[key]]
    ELSE IF Holders(disk, levels[1], key) # {}
    THEN [ok |-> TRUE,
          value |-> TableMap(disk, levels[1][Max(Holders(disk, levels[1], key))])[key]]
    ELSE IF \E level \in 1..(NumLevels - 1) : LevelHits(level, key)
    THEN [ok |-> TRUE,
          value |-> LevelValue(Min({ level \in 1..(NumLevels - 1) : LevelHits(level, key) }), key)]
    ELSE NotFound

\* C20: Get(k) returns the first hit in the order: the memtable; the tables
\* of L0 from the last appended to the first; the levels 1 to 6 in ascending
\* order, in each of which only the first table whose range of keys holds k
\* is probed and a miss in it ends the search of the level; NotFound only
\* when none of them has k.
C20_GetSearchOrder ==
    last.op = "Get" => [ok |-> last.ok, value |-> last.value] = FirstHit(last.key)

\* A Get of a key that the memtable does not hold, answered by a level below
\* L0 after a miss in the level above it, whose table ranges over the key.
C20_Witness ==
    /\ last.op = "Get" /\ last.ok /\ last.key = K2
    /\ memTable = EmptyMap
    /\ levels[1] = <<>>
    /\ \E level \in 1..(NumLevels - 2) :
         /\ Len(levels[level + 1]) = 1 /\ Len(levels[level + 2]) = 1
         /\ InRange(disk, levels[level + 1][1], K2)
         /\ ~LevelHits(level, K2)
         /\ LevelHits(level + 1, K2)

(***************************************************************************)
(* The order of the tables of L0.  Every Put of SpecRestart writes the     *)
(* number of the Put as its value, so of two values of a key the greater   *)
(* one was written later.                                                  *)
(***************************************************************************)
WrittenLater(a, b) == a[1] > b[1]

\* The tables i < j of L0 that both hold the key, the earlier one holding the
\* value written later.
Misordered(d, tables, key) ==
    { p \in (1..Len(tables)) \X (1..Len(tables)) :
        /\ p[1] < p[2]
        /\ Has(TableMap(d, tables[p[1]]), key)
        /\ Has(TableMap(d, tables[p[2]]), key)
        /\ WrittenLater(TableMap(d, tables[p[1]])[key], TableMap(d, tables[p[2]])[key]) }

\* C21: in every reachable state, also right after Open, the list of L0 is
\* ordered by creation time with the newest table last: of two tables of L0
\* that hold a key, the one later in the list holds the value written later.
C21_L0NewestLast ==
    up => \A k \in Keys : Misordered(disk, levels[1], k) = {}

\* The same within the session that started on the empty directory.
C21_L0NewestLastBeforeRestart ==
    (up /\ hist.restarts = 0) => \A k \in Keys : Misordered(disk, levels[1], k) = {}

\* Open has loaded an output of a compaction and an output of a flush that
\* hold the same key.
C21_Witness ==
    /\ up /\ last.op = "Open" /\ last.ok
    /\ \E i, j \in 1..Len(levels[1]) :
         /\ levels[1][i].path[2] = 0 /\ levels[1][j].path[2] > 0
         /\ \E k \in Keys : Has(TableMap(disk, levels[1][i]), k) /\ Has(TableMap(disk, levels[1][j]), k)

(***************************************************************************)
(* Long sessions: every Put is followed by a Flush, so that L0 is          *)
(* compacted twice and the second compaction finds a table in L1; the      *)
(* engine may be closed and opened again once a table is in L1.            *)
(***************************************************************************)
MaxPutsLong == 8

NextLong ==
    \/ /\ hist.puts < MaxPutsLong
       /\ memTable = EmptyMap
       /\ \E key \in Keys : PutOk(key, FreshValue)
    \/ Flush
    \/ memTable = EmptyMap /\ levels[2] # <<>> /\ Close
    \/ Open

SpecLong == Init /\ [][NextLong]_vars

\* The key ranges [first key, last key] of two tables have no key in common
\* (a table with an empty index has no range).
RangesDisjoint(a, b) ==
    \/ Len(a.index) = 0
    \/ Len(b.index) = 0
    \/ StrLess(a.index[Len(a.index)].key, b.index[1].key)
    \/ StrLess(b.index[Len(b.index)].key, a.index[1].key)

\* C22: in every reachable state each level 1..6 holds at most one table, so
\* the tables of such a level have pairwise disjoint key ranges and the probe
\* of a single table per level in Get finds every key a table of the level
\* holds.
C22_DeepLevelsHoldOneTable ==
    \A level \in 1..(NumLevels - 1) :
        /\ Len(levels[level + 1]) <= 1
        /\ \A i, j \in 1..Len(levels[level + 1]) :
               i # j => RangesDisjoint(levels[level + 1][i], levels[level + 1][j])
        /\ \A k \in Keys :
               (\E i \in 1..Len(levels[level + 1]) : Has(TableMap(disk, levels[level + 1][i]), k))
                   => GetLn(disk, levels[level + 1], 1, k).ok

\* A flush has compacted L0 into L1 when L1 held a table already: L1 holds
\* the one merged table.
C22_Witness ==
    /\ up /\ last.op = "Flush" /\ last.ok
    /\ Len(last.pre.levels[1]) = 3 /\ Len(last.pre.levels[2]) = 1
    /\ levels[1] = <<>> /\ Len(levels[2]) = 1
    /\ levels[2][1] # last.pre.levels[2][1]

(***************************************************************************)
(* Sessions in which a call of a flush or of a compaction fails, and the   *)
(* restart that finds the files the failed call left.                      *)
(***************************************************************************)
NextPublish ==
    \/ /\ hist.puts < MaxPutsFault
       /\ hist.walRecs < MaxWalRecordsFault
       /\ hist.faults < MaxFaults
       /\ hist.restarts < MaxRestarts
       /\ \E key \in Keys, value \in {FreshValue, BigValue} : PutOk(key, value)
    \/ Flush
    \/ FlushFault
    \/ last.op = "Flush" /\ last.failed > 0 /\ Close
    \/ Open

SpecPublish == Init /\ [][NextPublish]_vars

\* The world in which call i of the last flush was made.
WorldBefore(i) == WorldAfter(last.pre, last.steps, i - 1)

\* The calls of the last flush that were made and succeeded.
CallsDone(name) == { i \in 1..last.n : last.steps[i].call = name }

\* The file names call i created.
Created(i) == DOMAIN last.steps[i].ok.disk \ DOMAIN WorldBefore(i).disk

\* The tables in the level lists of a world.
TablesIn(w) == UNION { { w.levels[l][i] : i \in 1..Len(w.levels[l]) } : l \in 1..NumLevels }

\* A table is Loaded: its file is on disk under a name ending in .sst and the
\* index and the filter are those Load reads from it.
IsLoaded(d, sst) ==
    /\ sst.path[1] = "sst"
    /\ sst.path \in DOMAIN d
    /\ SSTableLoad(d[sst.path]).ok
    /\ sst = LoadedTable(d, sst.path)

CompactDies(steps) ==
    \E i \in 1..Len(steps), inside \in BOOLEAN :
        /\ steps[i].level = steps[1].level
        \* to die inside a call that has changed nothing is to die before it
        /\ inside => steps[i].bad # WorldAfter(World, steps, i - 1)
        /\ Down(IF inside THEN steps[i].bad ELSE steps[i].ok)
        /\ UNCHANGED <<batch, hist>>
        /\ last' = LastFlush("Crash", FALSE, steps, IF inside THEN i - 1 ELSE i, i)

CompactCrash(level) ==
    /\ up /\ last.op = "Open"
    /\ levels[level + 1] # <<>>
    /\ \E steps \in {RunCalls(World, compactLevel(World, level), level, clock)} :
           CompactDies(steps)

NextCompactCrash ==
    \/ \E level \in 0..(NumLevels - 2) : CompactLevel(level)
    \/ \E level \in 0..(NumLevels - 2) : CompactCrash(level)

\* The levels of InitLevels in which the first three tables of L0 have the
\* same content.
InitCompactCrash ==
    /\ InitLevels
    /\ \A i \in 2..(Len(levels[1]) - 1) :
           TableMap(disk, levels[1][i]) = TableMap(disk, levels[1][1])

SpecCompactCrash == InitCompactCrash /\ [][NextCompactCrash]_vars

\* The keys the published files of the directory hold.
PublishedKeys(d) ==
    UNION { DOMAIN TableMap(d, LoadedTable(d, name)) : name \in { n \in DOMAIN d : n[1] = "sst" } }

\* The tables compactLevel was given.
CompactionInputs ==
    { last.pre.levels[l][i] : <<l, i>> \in
        { p \in {CompactedLevel + 1, CompactedLevel + 2} \X (1..LevelPolicies[1].maxFiles) :
            p[2] <= Len(last.pre.levels[p[1]]) } }

\* C24: wherever the process dies during compactLevel (after any of its
\* calls or inside one, between two deletions included), every key the input
\* tables held is in a published .sst file of the directory; and an input
\* file is gone only when the merged table is on disk under its final name,
\* synced and loadable.
C24_CompactionIsCrashConsistent ==
    (last.op \in {"Crash", "Compact"})
        => /\ \A sst \in CompactionInputs :
                 DOMAIN TableMap(last.pre.disk, sst) \subseteq PublishedKeys(disk)
           /\ (\E sst \in CompactionInputs : sst.path \notin DOMAIN disk)
                 => /\ SstPath(CompactedLevel + 1, last.pre.clock) \in DOMAIN disk
                    /\ SstPath(CompactedLevel + 1, last.pre.clock) \in synced
                    /\ SSTableLoad(disk[SstPath(CompactedLevel + 1, last.pre.clock)]).ok
                    /\ \A sst \in CompactionInputs :
                         DOMAIN TableMap(last.pre.disk, sst)
                            \subseteq DOMAIN TableMap(disk, LoadedTable(disk,
                                          SstPath(CompactedLevel + 1, last.pre.clock)))

\* The process died between two deletions: an input file is gone, another
\* one is still there.
C24_Witness ==
    /\ last.op = "Crash"
    /\ \E a, b \in CompactionInputs : a.path \notin DOMAIN disk /\ b.path \in DOMAIN disk

(***************************************************************************)
(* needsCompaction on levels of given sizes: L0 with up to five tables, a  *)
(* deeper level with one table, the first table of a size around the caps. *)
(***************************************************************************)
MiB == 1024 * 1024

\* The size of the file of a table that holds K1 with an empty value.
TableOverhead == ByteLen(TableFile(K1 :> <<>>))

\* The sizes, in bytes, of the first table of the level.
PolicySizes ==
    { 1000, 10 * MiB - 1, 10 * MiB, 100 * MiB - 1, 100 * MiB,
      1000 * MiB - 1, 1000 * MiB, 1024 * MiB - 1, 1024 * MiB }

\* The deepest level the sizes above can fill to its cap.
MaxPolicyLevel == 3

MaxPolicyFiles == 5

\* n tables, the first one of the given file size.
PolicyMaps(n, size) ==
    [i \in 1..n |-> IF i = 1 THEN (K1 :> ZeroRun(size - TableOverhead)) ELSE (K2 :> <<12>>)] \o <<>>

InitPolicy ==
    \E L \in 0..MaxPolicyLevel :
      \E n \in 0..(IF L = 0 THEN MaxPolicyFiles ELSE 1), size \in PolicySizes :
        \E w \in { LevelWorld(L, d, n, 0) : d \in {LevelDisk(L, PolicyMaps(n, size), <<>>)} } :
            /\ disk = w.disk
            /\ synced = w.synced
            /\ clock = w.clock
            /\ up = TRUE
            /\ memTable = w.memTable
            /\ wal = w.wal
            /\ levels = w.levels
            /\ hist = [acked |-> EmptyMap, sess |-> EmptyMap, puts |-> 0, walRecs |-> 0,
                       bigPuts |-> 0, restarts |-> 0, faults |-> 0, failed |-> 0,
                       torn |-> FALSE, cleanEnd |-> FALSE, preClose |-> NoWorld]
            /\ batch = NoBatch
            /\ last = [op |-> "Open", ok |-> TRUE, pre |-> NoWorld, key |-> <<>>,
                       value |-> <<>>, n |-> 0, failed |-> 0, steps |-> <<>>]

\* DB.needsCompaction(level), as DB.maybeCompact calls it; last.n is the level.
NeedsCompaction(level) ==
    /\ up /\ last.op = "Open"
    /\ UNCHANGED batch
    /\ last' = Last("needsCompaction", needsCompaction(World, level), <<>>, <<>>, level, 0)
    /\ UNCHANGED <<disk, synced, clock, up, memTable, wal, levels, hist>>

NextPolicy == \E level \in 0..(NumLevels - 2) : NeedsCompaction(level)

SpecPolicy == InitPolicy /\ [][NextPolicy]_vars

\* The caps as stated: files, and bytes in MiB with 1 GiB = 1024 MiB and
\* 1 TiB = 1024 GiB.
StatedMaxFiles == <<4, 10, 10, 10, 10, 10, 10>>

StatedCapMiB == <<0, 10, 100, 1024, 10 * 1024, 100 * 1024, 1024 * 1024>>

\* The caps in MiB with 1 GiB taken as 1000 MiB and 1 TiB as 1000000 MiB.
DecimalCapMiB == <<0, 10, 100, 1000, 10000, 100000, 1000000>>

RECURSIVE SumOfSizes(_)
SumOfSizes(tables) ==
    IF tables = <<>> THEN 0 ELSE ByteLen(disk[tables[1].path]) + SumOfSizes(Tail(tables))

\* At least max_files tables, or a cap that is not zero and is reached.
Due(level, capMiB) ==
    \/ Len(levels[level + 1]) >= StatedMaxFiles[level + 1]
    \/ /\ capMiB[level + 1] > 0
       /\ SumOfSizes(levels[level + 1]) \div MiB >= capMiB[level + 1]

\* C25: needsCompaction(L) is true exactly when level L holds at least
\* max_files tables, or its byte cap is not zero and the summed file sizes
\* reach it, with 4 files and no byte cap for L0, and 10 files and 10 MiB,
\* 100 MiB, 1 GiB, 10 GiB, 100 GiB, 1 TiB for L1..L6.
C25_NeedsCompactionAsStated ==
    last.op = "needsCompaction" => (last.ok <=> Due(last.n, StatedCapMiB))

\* The same with the byte caps 10, 100, 1000, ... MiB.
C25_NeedsCompactionDecimalCaps ==
    last.op = "needsCompaction" => (last.ok <=> Due(last.n, DecimalCapMiB))

\* Level 3 holds a table of 1000 MiB, less than 1 GiB, and is found due.
C25_Witness ==
    /\ last.op = "needsCompaction" /\ last.n = 3 /\ last.ok
    /\ Len(levels[4]) = 1
    /\ SumOfSizes(levels[4]) = 1000 * MiB

(***************************************************************************)
(* compactLevel on given levels when one of its calls returns an error.    *)
(***************************************************************************)
\* DB.compactLevel where call i fails with an I/O error: the error is
\* returned, and DB.maybeCompact returns it.
CompactFails(steps) ==
    \E i \in 1..Len(steps) :
        /\ steps[i].canFail
        /\ SetWorld(steps[i].bad)
        /\ UNCHANGED <<up, batch, hist>>
        /\ last' = LastFlush("Compact", FALSE, steps, i - 1, i)

CompactFault(level) ==
    /\ up /\ last.op = "Open"
    /\ levels[level + 1] # <<>>
    /\ \E steps \in {RunCalls(World, compactLevel(World, level), level, clock)} :
           CompactFails(steps)

NextCompactFault ==
    \/ \E level \in 0..(NumLevels - 2) : CompactLevel(level)
    \/ \E level \in 0..(NumLevels - 2) : CompactFault(level)

SpecCompactFault == InitCompactCrash /\ [][NextCompactFault]_vars

\* The level whose compaction returned the error, and the world in which
\* that compaction was started.
FailedLevel == last.steps[last.failed].level

AttemptStart ==
    WorldAfter(last.pre, last.steps,
               Min({ j \in 1..last.failed : last.steps[j].level = FailedLevel }) - 1)

\* C26: when compactLevel(L) returns an error, the lists of L and L+1 are as
\* they were when it was called and none of their tables' files is removed
\* or changed, every Get answers as before the attempt, and the pass of
\* maybeCompact ends there: no deeper level is changed.
C26_FailedCompactionChangesNothing ==
    (last.op = "Compact" /\ ~last.ok)
        => /\ levels = AttemptStart.levels
           /\ memTable = AttemptStart.memTable
           /\ \A l \in {FailedLevel + 1, FailedLevel + 2} :
                \A i \in 1..Len(AttemptStart.levels[l]) :
                   /\ AttemptStart.levels[l][i].path \in DOMAIN disk
                   /\ disk[AttemptStart.levels[l][i].path]
                        = AttemptStart.disk[AttemptStart.levels[l][i].path]
                   /\ IsLoaded(disk, AttemptStart.levels[l][i])
           /\ \A k \in LevelKeys : Get(k) = DBGet(AttemptStart, k)

\* The load of the merged table failed: its file is published, the two
\* levels that were merged still hold their tables.
C26_Witness ==
    /\ last.op = "Compact" /\ ~last.ok
    /\ last.steps[last.failed].call = "Load"
    /\ levels[FailedLevel + 1] # <<>> /\ levels[FailedLevel + 2] # <<>>
    /\ SstPath(FailedLevel + 1, last.pre.clock) \in DOMAIN disk
    /\ \E k \in LevelKeys : Get(k).ok

(***************************************************************************)
(* One session in which a call of a flush fails and Puts follow.           *)
(***************************************************************************)
MaxPutsError == 3

NextFlushError ==
    \/ hist.puts < MaxPutsError /\ \E key \in Keys : PutOk(key, FreshValue)
    \/ \E key \in Keys : PutBroken(key, FreshValue)
    \/ Flush
    \/ FlushFault

SpecFlushError == Init /\ [][NextFlushError]_vars

\* The memtable and the levels are those before the flush, and every
\* acknowledged Put is returned by Get.
FlushKeptData ==
    /\ memTable = last.pre.memTable
    /\ levels = last.pre.levels
    /\ \A k \in Keys : Get(k) = MapGet(hist.acked, k)

\* C27: when Flush returns an error at any of its calls (write, fsync,
\* rename, load, WAL close, WAL delete, WAL recreate), the memtable and the
\* levels are as before the call, every acknowledged Put is still returned by
\* Get, and the engine holds an open, usable WAL: a Put that follows succeeds
\* and is logged.
C27_FlushErrorKeepsEngineUsable ==
    /\ (last.op = "Flush" /\ ~last.ok)
         => /\ FlushKeptData
            /\ wal.open /\ ~wal.err
            /\ walFilePath \in DOMAIN disk
    /\ (last.op = "Put" /\ hist.failed + hist.faults > 0)
         => /\ last.ok
            /\ FileOf(disk, walFilePath)
                 = FileOf(last.pre.disk, walFilePath) \o writeBinaryRecord(last.key, last.value)

\* The same without the WAL: what a failed flush keeps, and that the WAL is
\* untouched when the error came before the call that closes it.
C27_FlushErrorKeepsData ==
    (last.op = "Flush" /\ ~last.ok)
        => /\ FlushKeptData
           /\ last.failed <= 4 => (wal = last.pre.wal /\ wal.open
                                   /\ FileOf(disk, walFilePath) = FileOf(last.pre.disk, walFilePath))

\* A Put after a flush that failed once it had come to close the WAL: the
\* WAL is closed and the Put returns an error.
C27_Witness ==
    /\ last.op = "Put" /\ ~last.ok
    /\ hist.faults > 0
    /\ ~wal.open
    /\ memTable # EmptyMap

(***************************************************************************)
(* Sessions of an engine opened on a wal.log whose last record is torn.    *)
(***************************************************************************)
MaxPutsTorn == 2

\* The record the crash cut, and the number of its bytes that reached the
\* file: the length only, the whole header, half of the record, all but the
\* last byte.
TornRecord == writeBinaryRecord(K2, <<4>>)

TornLengths == {4, 8, Len(TornRecord) \div 2, Len(TornRecord) - 1}

\* NewDB on a directory whose wal.log holds complete records and then a torn
\* one: Replay has given the memtable, NewWAL has opened the file to append.
InitTorn ==
    \E n \in 0..(MaxWalItems - 1) :
      \E items \in [1..n -> [kv : WalPairs, damaged : {FALSE}]], cut \in TornLengths :
        /\ disk = (walFilePath :> (WalBytes(items) \o Take(TornRecord, cut)))
        /\ synced = {}
        /\ clock = 1
        /\ up = TRUE
        /\ memTable = Replay(WalBytes(items) \o Take(TornRecord, cut)).data
        /\ wal = [open |-> TRUE, err |-> FALSE]
        /\ levels = NoLevels
        /\ hist = [acked |-> IntactData(items, EmptyMap), sess |-> EmptyMap, puts |-> 0,
                   walRecs |-> n, bigPuts |-> 0, restarts |-> 0, faults |-> 0, failed |-> 0,
                   torn |-> TRUE, cleanEnd |-> FALSE, preClose |-> NoWorld]
        /\ batch = NoBatch
        /\ last = [op |-> "Open", ok |-> TRUE, pre |-> NoWorld, key |-> <<>>, value |-> <<>>,
                   n |-> 0, failed |-> 0, steps |-> <<>>]

NextTorn ==
    \/ hist.puts < MaxPutsTorn /\ hist.restarts < MaxRestarts
         /\ \E key \in Keys : PutOk(key, <<5 + hist.puts>>)
    \/ Close
    \/ Open

SpecTorn == InitTorn /\ [][NextTorn]_vars

\* C28: after an Open on a wal.log whose last record is torn, the Puts
\* acknowledged in the session are appended to that file, and the Replay of
\* the next restart, with no flush in between, recovers every one of them
\* together with the complete records that preceded the torn one.
C28_PutsAfterTornTailRecovered ==
    /\ (last.op = "Put" /\ last.ok)
         => FileOf(disk, walFilePath)
              = FileOf(last.pre.disk, walFilePath) \o writeBinaryRecord(last.key, last.value)
    /\ (last.op = "Open" /\ hist.restarts = 1)
         => /\ last.ok /\ up
            /\ memTable = hist.acked

\* The same for sessions in which no Put was made.
C28_TornTailAloneRecovered ==
    /\ (last.op = "Put" /\ last.ok)
         => FileOf(disk, walFilePath)
              = FileOf(last.pre.disk, walFilePath) \o writeBinaryRecord(last.key, last.value)
    /\ (last.op = "Open" /\ hist.restarts = 1 /\ hist.puts = 0)
         => /\ last.ok /\ up
            /\ memTable = hist.acked

\* The restart after a session with an acknowledged Put: the key of the Put
\* is not in the memtable.
C28_Witness ==
    /\ last.op = "Open" /\ hist.restarts = 1 /\ last.ok
    /\ hist.puts > 0
    /\ \E k \in DOMAIN hist.acked : ~Has(memTable, k)

=============================================================================
